---- MODULE Spec2Model ----
(***************************************************************************)
(* Bug Fix Evaluator: the analysis of two bug fixes (CodeAnalyzer,         *)
(* core/analyzer.py) and their scoring (EvaluationMetrics,                 *)
(* core/metrics.py), as a state machine of one evaluation run:             *)
(* BugFixEvaluator builds the metrics engine from its configuration,       *)
(* analyses the engineer's fix, analyses the AI's fix and evaluates.       *)
(*                                                                         *)
(* Text is a sequence of characters (one-character strings), a file is a   *)
(* sequence of lines.  Scores are exact rationals [n, d] in lowest terms   *)
(* with d > 0 where the code computes with floats.  Python's None is 0     *)
(* where a line number is expected (line numbers are 1-indexed) .          *)
(*                                                                         *)
(* Specifications: Spec (analyses of small requests), SpecFiles (files     *)
(* are collected, then analysed; collected holds them), SpecGiven (the     *)
(* analyses are handed to evaluate directly), SpecCommits (a run of        *)
(* evaluate_from_commits whose boundary operations may fail), SpecDefault  *)
(* (the metrics engine is built from get_default_config()), SpecConfig     *)
(* (configurations are handed out and set, utils/config.py), SpecValidate  *)
(* (one configuration is set and validated), SpecWait (the wait command    *)
(* of the cursor evaluator polls for the results file), SpecRepeat (one    *)
(* metrics engine is used for several evaluate calls).                     *)
(***************************************************************************)
EXTENDS Integers, Sequences, FiniteSets, TLC

VARIABLES pc, metrics, engineer_analysis, ai_analysis, result, collected,
          heap, handed, validation,
          now, results_file, watcher, cli,
          calls

config_vars == <<heap, handed, validation>>

wait_vars == <<now, results_file, watcher, cli>>

vars == <<pc, metrics, engineer_analysis, ai_analysis, result, collected, config_vars,
          wait_vars, calls>>

(***************************************************************************)
(* Rational arithmetic                                                     *)
(***************************************************************************)
Abs(i) == IF i < 0 THEN -i ELSE i

RECURSIVE Gcd(_, _)
Gcd(a, b) == IF b = 0 THEN a ELSE Gcd(b, a % b)

Rat(n, d) ==
    LET s == IF d < 0 THEN -1 ELSE 1
        g == Gcd(Abs(n), Abs(d))
    IN  [n |-> (s * n) \div g, d |-> (s * d) \div g]

Zero == Rat(0, 1)
One == Rat(1, 1)
RAdd(p, q) == Rat(p.n * q.d + q.n * p.d, p.d * q.d)
RSub(p, q) == Rat(p.n * q.d - q.n * p.d, p.d * q.d)
RMul(p, q) == Rat(p.n * q.n, p.d * q.d)
RDiv(p, q) == Rat(p.n * q.d, p.d * q.n)
RLt(p, q) == p.n * q.d < q.n * p.d
RLe(p, q) == p.n * q.d <= q.n * p.d
RMax(p, q) == IF RLt(p, q) THEN q ELSE p
RMin(p, q) == IF RLt(q, p) THEN q ELSE p
RAbs(p) == Rat(Abs(p.n), p.d)

(***************************************************************************)
(* Python lists and strings                                                *)
(***************************************************************************)
Range(s) == {s[i] : i \in 1..Len(s)}

\* sum(1 for c in changes if c["type"] == type)
Count(changes, type) == Cardinality({i \in 1..Len(changes) : changes[i].type = type})

\* needle in hay
Contains(hay, needle) ==
    \E i \in 1..(Len(hay) - Len(needle) + 1) :
        SubSeq(hay, i, i + Len(needle) - 1) = needle

\* s.startswith(prefix)
StartsWith(s, prefix) ==
    Len(s) >= Len(prefix) /\ SubSeq(s, 1, Len(prefix)) = prefix

Digits == <<"0", "1", "2", "3", "4", "5", "6", "7", "8", "9">>

\* '{}'.format(n) for n >= 0
RECURSIVE FormatInt(_)
FormatInt(n) ==
    IF n < 10 THEN <<Digits[n + 1]>>
    ELSE FormatInt(n \div 10) \o <<Digits[(n % 10) + 1]>>

DigitValue(c) == CHOOSE v \in 0..9 : Digits[v + 1] = c

\* int(s) for a string of decimal digits
RECURSIVE ParseInt(_)
ParseInt(s) ==
    IF Len(s) = 0 THEN 0
    ELSE 10 * ParseInt(SubSeq(s, 1, Len(s) - 1)) + DigitValue(s[Len(s)])

IsDigit(c) == c \in Range(Digits)

\* the length of the longest run of digits at the start of s: what \d+ takes
DigitRun(s) ==
    CHOOSE n \in 0..Len(s) :
        (\A i \in 1..n : IsDigit(s[i])) /\ (n = Len(s) \/ ~IsDigit(s[n + 1]))

(***************************************************************************)
(* difflib.unified_diff(bug_lines, fixed_lines, n=0, lineterm=''), as      *)
(* _get_line_changes calls it.  Positions are 0-indexed and ranges are     *)
(* half-open, as in Python; a[i + 1] is Python's a[i].  Both files are     *)
(* far below the 200 lines at which difflib starts to treat popular lines  *)
(* as junk.                                                                *)
(***************************************************************************)
Max(S) == CHOOSE m \in S : \A x \in S : x <= m
Min(S) == CHOOSE m \in S : \A x \in S : m <= x

\* the length of the common run of a from i and b from j inside the window
RECURSIVE CommonRun(_, _, _, _, _, _)
CommonRun(a, b, i, j, ahi, bhi) ==
    IF i < ahi /\ j < bhi /\ a[i + 1] = b[j + 1]
    THEN 1 + CommonRun(a, b, i + 1, j + 1, ahi, bhi)
    ELSE 0

\* SequenceMatcher.find_longest_match: the longest block, of those the one
\* that starts earliest in a, of those the one that starts earliest in b
find_longest_match(a, b, alo, ahi, blo, bhi) ==
    LET size(i, j) == CommonRun(a, b, i, j, ahi, bhi)
        sizes == {size(i, j) : i \in alo..(ahi - 1), j \in blo..(bhi - 1)}
        bestsize == IF sizes = {} THEN 0 ELSE Max(sizes)
    IN  IF bestsize = 0 THEN [i |-> alo, j |-> blo, size |-> 0]
        ELSE LET besti == Min({i \in alo..(ahi - 1) :
                                 \E j \in blo..(bhi - 1) : size(i, j) = bestsize})
                 bestj == Min({j \in blo..(bhi - 1) : size(besti, j) = bestsize})
             IN  [i |-> besti, j |-> bestj, size |-> bestsize]

\* the recursion of SequenceMatcher.get_matching_blocks, in sorted order
RECURSIVE matching_blocks_in(_, _, _, _, _, _)
matching_blocks_in(a, b, alo, ahi, blo, bhi) ==
    LET around(x) ==
            IF x.size = 0 THEN <<>>
            ELSE (IF alo < x.i /\ blo < x.j
                  THEN matching_blocks_in(a, b, alo, x.i, blo, x.j) ELSE <<>>)
                 \o <<x>> \o
                 (IF x.i + x.size < ahi /\ x.j + x.size < bhi
                  THEN matching_blocks_in(a, b, x.i + x.size, ahi, x.j + x.size, bhi)
                  ELSE <<>>)
    IN  around(find_longest_match(a, b, alo, ahi, blo, bhi))

\* adjacent equal blocks are collapsed into one
RECURSIVE collapse_blocks(_, _)
collapse_blocks(blocks, cur) ==
    IF blocks = <<>> THEN (IF cur.size > 0 THEN <<cur>> ELSE <<>>)
    ELSE LET x == Head(blocks)
         IN  IF cur.i + cur.size = x.i /\ cur.j + cur.size = x.j
             THEN collapse_blocks(Tail(blocks),
                                  [i |-> cur.i, j |-> cur.j, size |-> cur.size + x.size])
             ELSE (IF cur.size > 0 THEN <<cur>> ELSE <<>>)
                  \o collapse_blocks(Tail(blocks), x)

\* SequenceMatcher.get_matching_blocks, with its closing dummy block
get_matching_blocks(a, b) ==
    collapse_blocks(matching_blocks_in(a, b, 0, Len(a), 0, Len(b)),
                    [i |-> 0, j |-> 0, size |-> 0])
    \o <<[i |-> Len(a), j |-> Len(b), size |-> 0]>>

\* SequenceMatcher.get_opcodes
RECURSIVE opcodes_from(_, _, _)
opcodes_from(blocks, i, j) ==
    IF blocks = <<>> THEN <<>>
    ELSE LET x == Head(blocks)
             tag == IF i < x.i /\ j < x.j THEN "replace"
                    ELSE IF i < x.i THEN "delete"
                    ELSE IF j < x.j THEN "insert"
                    ELSE ""
         IN  (IF tag # ""
              THEN <<[tag |-> tag, i1 |-> i, i2 |-> x.i, j1 |-> j, j2 |-> x.j]>>
              ELSE <<>>)
             \o (IF x.size > 0
                 THEN <<[tag |-> "equal", i1 |-> x.i, i2 |-> x.i + x.size,
                         j1 |-> x.j, j2 |-> x.j + x.size]>>
                 ELSE <<>>)
             \o opcodes_from(Tail(blocks), x.i + x.size, x.j + x.size)

get_opcodes(a, b) == opcodes_from(get_matching_blocks(a, b), 0, 0)

\* SequenceMatcher.get_grouped_opcodes(0): every equal run of one line or
\* more closes a group, so each group is one replace, delete or insert,
\* and the group's ranges are that opcode's ranges
get_grouped_opcodes(a, b) ==
    SelectSeq(get_opcodes(a, b), LAMBDA op : op.tag # "equal")

\* difflib._format_range_unified
format_range_unified(start, stop) ==
    LET length == stop - start
    IN  IF length = 1 THEN FormatInt(start + 1)
        ELSE FormatInt(IF length = 0 THEN start ELSE start + 1)
             \o <<",">> \o FormatInt(length)

hunk_header(op) ==
    <<"@", "@", " ", "-">> \o format_range_unified(op.i1, op.i2)
    \o <<" ", "+">> \o format_range_unified(op.j1, op.j2)
    \o <<" ", "@", "@">>

hunk_lines(a, b, op) ==
    <<hunk_header(op)>>
    \o (IF op.tag \in {"replace", "delete"}
        THEN [k \in 1..(op.i2 - op.i1) |-> <<"-">> \o a[op.i1 + k]] ELSE <<>>)
    \o (IF op.tag \in {"replace", "insert"}
        THEN [k \in 1..(op.j2 - op.j1) |-> <<"+">> \o b[op.j1 + k]] ELSE <<>>)

RECURSIVE hunks_lines(_, _, _)
hunks_lines(a, b, groups) ==
    IF groups = <<>> THEN <<>>
    ELSE hunk_lines(a, b, Head(groups)) \o hunks_lines(a, b, Tail(groups))

\* the lines difflib.unified_diff yields: the two file header lines before
\* the first hunk, then each hunk
unified_diff(a, b) ==
    LET lines_of(groups) ==
            IF groups = <<>> THEN <<>>
            ELSE << <<"-", "-", "-", " ">>, <<"+", "+", "+", " ">> >>
                 \o hunks_lines(a, b, groups)
    IN  lines_of(get_grouped_opcodes(a, b))

(***************************************************************************)
(* CodeAnalyzer._get_line_changes.  A change record is                     *)
(*   [type, line_numbers |-> [bug, fixed], content |-> [bug, fixed]]       *)
(* where an added record has only the fixed side and a removed record only *)
(* the bug side (the other line number is None, here 0, and the other      *)
(* content is not there, here the empty string).                           *)
(***************************************************************************)
None == 0

\* re.match(r'^@@ -(\d+)(?:,\d+)? \+(\d+)(?:,\d+)? @@', line): the groups,
\* or no match
SkipOptionalCount(s) ==
    IF Len(s) >= 2 /\ s[1] = "," /\ IsDigit(s[2])
    THEN SubSeq(s, 2 + DigitRun(Tail(s)), Len(s))
    ELSE s

match_hunk_header(line) ==
    LET r1 == SubSeq(line, 5, Len(line))
        n1 == DigitRun(r1)
        r2 == SkipOptionalCount(SubSeq(r1, n1 + 1, Len(r1)))
        r3 == SubSeq(r2, 3, Len(r2))
        n2 == DigitRun(r3)
        r4 == SkipOptionalCount(SubSeq(r3, n2 + 1, Len(r3)))
    IN  IF /\ StartsWith(line, <<"@", "@", " ", "-">>)
           /\ n1 > 0
           /\ StartsWith(r2, <<" ", "+">>)
           /\ n2 > 0
           /\ StartsWith(r4, <<" ", "@", "@">>)
        THEN [matched |-> TRUE,
              group1 |-> ParseInt(SubSeq(r1, 1, n1)),
              group2 |-> ParseInt(SubSeq(r3, 1, n2))]
        ELSE [matched |-> FALSE, group1 |-> 0, group2 |-> 0]

removed_change(bug_line_num, text) ==
    [type |-> "removed",
     line_numbers |-> [bug |-> bug_line_num + 1, fixed |-> None],
     content |-> [bug |-> text, fixed |-> <<>>]]

added_change(fixed_line_num, text) ==
    [type |-> "added",
     line_numbers |-> [bug |-> None, fixed |-> fixed_line_num + 1],
     content |-> [bug |-> <<>>, fixed |-> text]]

\* the loop over the diff's lines (analyzer.py lines 173-210)
RECURSIVE parse_diff(_, _, _)
parse_diff(diff, bug_line_num, fixed_line_num) ==
    IF diff = <<>> THEN <<>>
    ELSE LET line == Head(diff)
             rest == Tail(diff)
         IN  IF StartsWith(line, <<"-", "-", "-">>) \/ StartsWith(line, <<"+", "+", "+">>)
             THEN parse_diff(rest, bug_line_num, fixed_line_num)
             ELSE IF StartsWith(line, <<"@", "@">>)
             THEN LET after(match) ==
                          IF match.matched
                          THEN parse_diff(rest, match.group1 - 1, match.group2 - 1)
                          ELSE parse_diff(rest, bug_line_num, fixed_line_num)
                  IN  after(match_hunk_header(line))
             ELSE IF StartsWith(line, <<"-">>)
             THEN <<removed_change(bug_line_num, Tail(line))>>
                  \o parse_diff(rest, bug_line_num + 1, fixed_line_num)
             ELSE IF StartsWith(line, <<"+">>)
             THEN <<added_change(fixed_line_num, Tail(line))>>
                  \o parse_diff(rest, bug_line_num, fixed_line_num + 1)
             ELSE parse_diff(rest, bug_line_num + 1, fixed_line_num + 1)

\* a post-processing that stops after the first pair
merge_modified_first_pair_only(changes, i) ==
    LET pairs == {j \in 1..(Len(changes) - 1) :
                     changes[j].type = "removed" /\ changes[j + 1].type = "added"}
        first == CHOOSE j \in pairs : \A k \in pairs : j <= k
    IN  IF pairs = {} THEN changes
        ELSE SubSeq(changes, 1, first - 1)
             \o <<[type |-> "modified",
                    line_numbers |-> [bug |-> changes[first].line_numbers.bug,
                                      fixed |-> changes[first + 1].line_numbers.fixed],
                    content |-> [bug |-> changes[first].content.bug,
                                 fixed |-> changes[first + 1].content.fixed]]>>
             \o SubSeq(changes, first + 2, Len(changes))

\* the post-processing loop (analyzer.py lines 212-232): a removed record
\* immediately followed by an added one becomes one modified record
RECURSIVE merge_modified(_, _)
merge_modified(changes, i) ==
    IF ~(i < Len(changes) - 1) THEN changes
    ELSE IF changes[i + 1].type = "removed" /\ changes[i + 2].type = "added"
    THEN LET modified ==
                 [type |-> "modified",
                  line_numbers |-> [bug |-> changes[i + 1].line_numbers.bug,
                                    fixed |-> changes[i + 2].line_numbers.fixed],
                  content |-> [bug |-> changes[i + 1].content.bug,
                               fixed |-> changes[i + 2].content.fixed]]
         IN  merge_modified(SubSeq(changes, 1, i) \o <<modified>>
                            \o SubSeq(changes, i + 3, Len(changes)), i)
    ELSE merge_modified(changes, i + 1)

_get_line_changes(bug_content, fixed_content) ==
    merge_modified(parse_diff(unified_diff(bug_content, fixed_content), 0, 0), 0)

(***************************************************************************)
(* Character classes and the regular expressions of the pattern detectors  *)
(***************************************************************************)
LowerCase == <<"a", "b", "c", "d", "e", "f", "g", "h", "i", "j", "k", "l", "m",
               "n", "o", "p", "q", "r", "s", "t", "u", "v", "w", "x", "y", "z">>
UpperCase == <<"A", "B", "C", "D", "E", "F", "G", "H", "I", "J", "K", "L", "M",
               "N", "O", "P", "Q", "R", "S", "T", "U", "V", "W", "X", "Y", "Z">>

\* \w
IsWord(c) == c \in Range(LowerCase) \cup Range(UpperCase) \cup Range(Digits) \cup {"_"}
\* \s
IsSpace(c) == c \in {" ", "\t"}

\* c.lower()
LowerChar(c) ==
    IF c \in Range(UpperCase)
    THEN LowerCase[CHOOSE k \in 1..Len(UpperCase) : UpperCase[k] = c]
    ELSE c

Lower(s) == [k \in 1..Len(s) |-> LowerChar(s[k])]

Str_except == <<"e", "x", "c", "e", "p", "t">>
Str_null == <<"n", "u", "l", "l">>

\* the number of leading characters of s in the class
SpaceRun(s) ==
    CHOOSE n \in 0..Len(s) :
        (\A i \in 1..n : IsSpace(s[i])) /\ (n = Len(s) \/ ~IsSpace(s[n + 1]))

WordRun(s) ==
    CHOOSE n \in 0..Len(s) :
        (\A i \in 1..n : IsWord(s[i])) /\ (n = Len(s) \/ ~IsWord(s[n + 1]))

Drop(s, n) == SubSeq(s, n + 1, Len(s))

\* s.lstrip()
LStrip(s) == Drop(s, SpaceRun(s))

\* re.search(r"(\w+)\.", s)
search_word_dot(s) ==
    \E i \in 1..(Len(s) - 1) : IsWord(s[i]) /\ s[i + 1] = "."

\* re.search of \w+ \s* followed by one of the literals
search_word_then(s, literals) ==
    \E i \in 1..Len(s) :
        /\ IsWord(s[i])
        /\ LET r == Drop(s, i)
           IN  \E lit \in literals : StartsWith(Drop(r, SpaceRun(r)), lit)

\* re.search(r"(\w+)\s*!=\s*null", s)
search_not_null(s) ==
    \E i \in 1..Len(s) :
        /\ IsWord(s[i])
        /\ LET r == Drop(s, i)
               r1 == Drop(r, SpaceRun(r))
               r2 == Drop(r1, 2)
           IN  /\ StartsWith(r1, <<"!", "=">>)
               /\ StartsWith(Drop(r2, SpaceRun(r2)), Str_null)

\* re.search(r"(\w+)\s*(\?\.|&&)", s)
search_null_guard(s) == search_word_then(s, {<<"?", ".">>, <<"&", "&">>})

\* re.search(r"(\w+)\s*=\s*[^=]+", s): a word character, white space, "=",
\* and at least one more character that is not "=" right after it (the
\* white space after "=" may be matched by [^=]+ as well)
search_assignment(s) ==
    \E i \in 1..Len(s) :
        /\ IsWord(s[i])
        /\ LET r == Drop(s, i)
               r1 == Drop(r, SpaceRun(r))
           IN  Len(r1) >= 2 /\ r1[1] = "=" /\ r1[2] # "="

\* re.match(r"except\s+\w+(\s+as\s+\w+)?:", s)
match_typed_except(s) ==
    LET r1 == Drop(s, Len(Str_except))
        r2 == Drop(r1, SpaceRun(r1))
        r3 == Drop(r2, WordRun(r2))
        r4 == Drop(r3, SpaceRun(r3))
        r5 == Drop(r4, 2)
        r6 == Drop(r5, SpaceRun(r5))
        r7 == Drop(r6, WordRun(r6))
    IN  /\ StartsWith(s, Str_except)
        /\ SpaceRun(r1) > 0
        /\ WordRun(r2) > 0
        /\ \/ StartsWith(r3, <<":">>)
           \/ /\ SpaceRun(r3) > 0
              /\ StartsWith(r4, <<"a", "s">>)
              /\ SpaceRun(r5) > 0
              /\ WordRun(r6) > 0
              /\ StartsWith(r7, <<":">>)

\* [int(m) for m in re.findall(r"(\d+)", s)]
find_numbers(s) ==
    LET starts == {i \in 1..Len(s) : IsDigit(s[i]) /\ (i = 1 \/ ~IsDigit(s[i - 1]))}
        start(k) == CHOOSE i \in starts : Cardinality({j \in starts : j < i}) = k - 1
        run(i) == SubSeq(s, i, i + DigitRun(Drop(s, i - 1)) - 1)
    IN  [k \in 1..Cardinality(starts) |-> ParseInt(run(start(k)))]

(***************************************************************************)
(* CodeAnalyzer: file type, pattern detectors, complexity                  *)
(***************************************************************************)
\* file_path.split('.')[-1]
RECURSIVE AfterLastDot(_)
AfterLastDot(path) ==
    IF Contains(path, <<".">>)
    THEN AfterLastDot(Drop(path, CHOOSE i \in 1..Len(path) : path[i] = "."
                                     /\ \A k \in 1..(i - 1) : path[k] # "."))
    ELSE path

_get_file_type(file_path) ==
    LET ext == IF Contains(file_path, <<".">>) THEN Lower(AfterLastDot(file_path)) ELSE <<>>
    IN  IF ext \in {<<"p", "y">>} THEN "python"
        ELSE IF ext \in {<<"j", "s">>} THEN "javascript"
        ELSE IF ext \in {<<"t", "s">>, <<"t", "s", "x">>} THEN "typescript"
        ELSE IF ext \in {<<"j", "a", "v", "a">>} THEN "java"
        ELSE IF ext \in {<<"c">>, <<"c", "p", "p">>, <<"h">>, <<"h", "p", "p">>} THEN "cpp"
        ELSE IF ext \in {<<"r", "s">>} THEN "rust"
        ELSE IF ext \in {<<"g", "o">>} THEN "go"
        ELSE IF ext \in {<<"r", "b">>} THEN "ruby"
        ELSE IF ext \in {<<"p", "h", "p">>} THEN "php"
        ELSE IF ext \in {<<"h", "t", "m", "l">>, <<"h", "t", "m">>} THEN "html"
        ELSE IF ext \in {<<"c", "s", "s">>} THEN "css"
        ELSE IF ext \in {<<"j", "s", "o", "n">>} THEN "json"
        ELSE IF ext \in {<<"m", "d">>, <<"m", "a", "r", "k", "d", "o", "w", "n">>} THEN "markdown"
        ELSE IF ext \in {<<"y", "m", "l">>, <<"y", "a", "m", "l">>} THEN "yaml"
        ELSE "unknown"

\* the patterns a detector appends, one modified record after the other
RECURSIVE Flatten(_)
Flatten(lists) ==
    IF Len(lists) = 0 THEN <<>>
    ELSE IF Len(lists) = 1 THEN lists[1]
    ELSE LET half == Len(lists) \div 2
         IN  Flatten(SubSeq(lists, 1, half)) \o Flatten(SubSeq(lists, half + 1, Len(lists)))

\* the contents of the modified records, in the order of the records
modified_contents(changes) ==
    LET modified == SelectSeq(changes, LAMBDA c : c.type = "modified")
    IN  [k \in 1..Len(modified) |-> modified[k].content]

When(cond, pattern) == IF cond THEN <<pattern>> ELSE <<>>

python_line_patterns(bug_line, fixed_line) ==
    When(/\ LStrip(bug_line) = LStrip(fixed_line)
         /\ StartsWith(bug_line, <<" ">>) # StartsWith(fixed_line, <<" ">>),
         "indentation_error")
    \o When(/\ Contains(bug_line, Str_except \o <<":">>)
            /\ match_typed_except(fixed_line),
            "bare_except")
    \o When(\/ /\ Contains(bug_line, <<"%">>)
               /\ Contains(fixed_line, <<"{">>)
               /\ Contains(fixed_line, <<"}">>)
            \/ /\ Contains(bug_line, <<"+">>)
               /\ Contains(fixed_line, <<"f", "o", "r", "m", "a", "t", "(">>)
            \/ /\ Contains(bug_line, <<"+">>)
               /\ Contains(fixed_line, <<"f", "\"">>),
            "string_formatting")

_detect_python_patterns(changes) ==
    LET lines == modified_contents(changes)
    IN  Flatten([k \in 1..Len(lines) |-> python_line_patterns(lines[k].bug, lines[k].fixed)])

js_line_patterns(bug_line, fixed_line) ==
    When(Contains(bug_line, <<"=", "=">>) /\ Contains(fixed_line, <<"=", "=", "=">>),
         "loose_equality")
    \o When(\/ /\ Contains(bug_line, <<"t", "h", "e", "n", "(">>)
               /\ Contains(fixed_line, <<"a", "w", "a", "i", "t">>)
            \/ /\ Contains(bug_line, <<"c", "a", "l", "l", "b", "a", "c", "k">>)
               /\ Contains(fixed_line, <<"P", "r", "o", "m", "i", "s", "e">>),
            "async_handling")
    \o When(search_word_dot(bug_line) /\ search_null_guard(fixed_line), "null_check")

_detect_js_patterns(changes) ==
    LET lines == modified_contents(changes)
    IN  Flatten([k \in 1..Len(lines) |-> js_line_patterns(lines[k].bug, lines[k].fixed)])

Str_synchronized == <<"s", "y", "n", "c", "h", "r", "o", "n", "i", "z", "e", "d">>

java_line_patterns(bug_line, fixed_line) ==
    When(search_word_dot(bug_line) /\ search_not_null(fixed_line), "null_check")
    \o When(/\ Contains(bug_line, <<"n", "e", "w", " ">>)
            /\ Contains(bug_line, <<"c", "l", "o", "s", "e", "(", ")">>)
            /\ Contains(fixed_line, <<"t", "r", "y", " ", "(">>),
            "resource_handling")
    \o When(/\ Contains(fixed_line, Str_synchronized)
            /\ ~Contains(bug_line, Str_synchronized),
            "concurrency")

_detect_java_patterns(changes) ==
    LET lines == modified_contents(changes)
    IN  Flatten([k \in 1..Len(lines) |-> java_line_patterns(lines[k].bug, lines[k].fixed)])

\* for b, f in zip(bug_nums, fixed_nums): if abs(b - f) == 1
off_by_one_line(bug_line, fixed_line) ==
    LET bug_nums == find_numbers(bug_line)
        fixed_nums == find_numbers(fixed_line)
    IN  When(\E k \in 1..Min({Len(bug_nums), Len(fixed_nums)}) :
                 Abs(bug_nums[k] - fixed_nums[k]) = 1,
             "off_by_one")

inverts_condition(bug_line, fixed_line) ==
    \/ Contains(bug_line, <<">">>) /\ Contains(fixed_line, <<"<">>)
    \/ Contains(bug_line, <<"<">>) /\ Contains(fixed_line, <<">">>)
    \/ Contains(bug_line, <<"=", "=">>) /\ Contains(fixed_line, <<"!", "=">>)
    \/ Contains(bug_line, <<"!", "=">>) /\ Contains(fixed_line, <<"=", "=">>)

handles_errors(content) ==
    \/ Contains(content, <<"t", "r", "y">>)
    \/ Contains(content, <<"c", "a", "t", "c", "h">>)
    \/ Contains(content, Str_except)
    \/ Contains(content, <<"f", "i", "n", "a", "l", "l", "y">>)

\* _detect_common_patterns looking at modified records only
_detect_common_patterns_of_modified_only(changes, diff) ==
    LET lines == modified_contents(changes)
        condition_inversions ==
            Len(SelectSeq(lines, LAMBDA l : inverts_condition(l.bug, l.fixed)))
        try_catch_changes == Len(SelectSeq(lines, LAMBDA l : handles_errors(l.fixed)))
        init_changes == Len(SelectSeq(lines, LAMBDA l : search_assignment(l.fixed)))
    IN  Flatten([k \in 1..Len(lines) |-> off_by_one_line(lines[k].bug, lines[k].fixed)])
        \o When(condition_inversions > 0, "condition_inversion")
        \o When(try_catch_changes > 0, "error_handling")
        \o When(init_changes > 0, "initialization")

\* the diff argument is not read by the code
_detect_common_patterns(changes, diff) ==
    LET lines == modified_contents(changes)
        condition_inversions ==
            Len(SelectSeq(changes, LAMBDA c : /\ c.type = "modified"
                                              /\ inverts_condition(c.content.bug,
                                                                   c.content.fixed)))
        try_catch_changes ==
            Len(SelectSeq(changes, LAMBDA c : /\ c.type = "added"
                                              /\ handles_errors(c.content.fixed)))
        init_changes ==
            Len(SelectSeq(changes, LAMBDA c : /\ c.type \in {"added", "modified"}
                                              /\ search_assignment(c.content.fixed)))
    IN  Flatten([k \in 1..Len(lines) |-> off_by_one_line(lines[k].bug, lines[k].fixed)])
        \o When(condition_inversions > 0, "condition_inversion")
        \o When(try_catch_changes > 0, "error_handling")
        \o When(init_changes > 0, "initialization")

_detect_bug_patterns(file_type, changes, diff) ==
    LET added_count == Count(changes, "added")
        removed_count == Count(changes, "removed")
        modified_count == Count(changes, "modified")
    IN  When(added_count > 0 /\ removed_count = 0 /\ modified_count = 0, "missing_code")
        \o When(removed_count > 0 /\ added_count = 0 /\ modified_count = 0, "extraneous_code")
        \o When(modified_count > 0 /\ added_count = 0 /\ removed_count = 0, "incorrect_logic")
        \o (IF file_type = "python" THEN _detect_python_patterns(changes)
            ELSE IF file_type = "javascript" \/ file_type = "typescript"
            THEN _detect_js_patterns(changes)
            ELSE IF file_type = "java" THEN _detect_java_patterns(changes)
            ELSE <<>>)
        \o _detect_common_patterns(changes, diff)

complex_patterns == {"concurrency", "async_handling", "error_handling", "resource_handling"}

\* _assess_complexity scoring a file without change records 0
_assess_complexity_of_changed_only(file_path, changes, patterns) ==
    LET total_changes == Count(changes, "added") + Count(changes, "removed")
                         + Count(changes, "modified")
        by_size == IF total_changes = 0 THEN [score |-> 0, factors |-> <<>>]
                   ELSE IF total_changes <= 3 THEN [score |-> 1, factors |-> <<"few_changes">>]
                   ELSE IF total_changes <= 10
                   THEN [score |-> 2, factors |-> <<"moderate_changes">>]
                   ELSE [score |-> 3, factors |-> <<"many_changes">>]
        multi_file == total_changes > 0 /\ ~Contains(file_path, <<".">>)
        complex == SelectSeq(patterns, LAMBDA p : p \in complex_patterns)
        complex_language == /\ total_changes > 0
                            /\ _get_file_type(file_path) \in {"java", "c++", "rust"}
    IN  [score |-> by_size.score + (IF multi_file THEN 2 ELSE 0) + Len(complex)
                   + (IF complex_language THEN 1 ELSE 0),
         factors |-> by_size.factors
                     \o When(multi_file, "multi_file")
                     \o [k \in 1..Len(complex) |-> "complex_pattern_" \o complex[k]]
                     \o When(complex_language, "complex_language")]

_assess_complexity(file_path, changes, patterns) ==
    LET added_count == Count(changes, "added")
        removed_count == Count(changes, "removed")
        modified_count == Count(changes, "modified")
        total_changes == added_count + removed_count + modified_count
        by_size == IF total_changes <= 3 THEN [score |-> 1, factors |-> <<"few_changes">>]
                   ELSE IF total_changes <= 10
                   THEN [score |-> 2, factors |-> <<"moderate_changes">>]
                   ELSE [score |-> 3, factors |-> <<"many_changes">>]
        multi_file == ~Contains(file_path, <<".">>)
        complex == SelectSeq(patterns, LAMBDA p : p \in complex_patterns)
        file_type == _get_file_type(file_path)
        complex_language == /\ file_type \notin {"python", "javascript", "typescript"}
                            /\ file_type \in {"java", "c++", "rust"}
    IN  [score |-> by_size.score + (IF multi_file THEN 2 ELSE 0) + Len(complex)
                   + (IF complex_language THEN 1 ELSE 0),
         factors |-> by_size.factors
                     \o When(multi_file, "multi_file")
                     \o [k \in 1..Len(complex) |-> "complex_pattern_" \o complex[k]]
                     \o When(complex_language, "complex_language")]

(***************************************************************************)
(* CodeAnalyzer.analyze_bug_fix.  bug_files and fixed_files are functions  *)
(* from paths to contents; a content is its sequence of lines (what        *)
(* splitlines() gives), and the empty content is the empty sequence.       *)
(* diffs is the sequence of its keys, which are distinct: the code reads   *)
(* no diff text.  The summary string is the sequence of its sentences.     *)
(***************************************************************************)
_analyze_file_changes(file_path, bug_content, fixed_content, diff) ==
    LET analysed(file_type, changes, patterns) ==
            [path |-> file_path, file_type |-> file_type,
             patterns |-> patterns, changes |-> changes,
             complexity |-> _assess_complexity(file_path, changes, patterns)]
        with_changes(file_type, changes) ==
            analysed(file_type, changes, _detect_bug_patterns(file_type, changes, diff))
        of_type(file_type) ==
            IF bug_content = <<>> \/ fixed_content = <<>>
            THEN [path |-> file_path, file_type |-> file_type,
                  patterns |-> <<"binary_change">>, changes |-> <<>>,
                  complexity |-> [score |-> 0, factors |-> <<>>]]
            ELSE with_changes(file_type, _get_line_changes(bug_content, fixed_content))
    IN  of_type(_get_file_type(file_path))

\* for x in xs: acc.append(x)
AppendAll(acc, xs) == acc \o xs

\* for x in xs: if x not in acc: acc.append(x)
RECURSIVE AppendNew(_, _)
AppendNew(acc, xs) ==
    IF xs = <<>> THEN acc
    ELSE AppendNew(IF Head(xs) \in Range(acc) THEN acc ELSE Append(acc, Head(xs)),
                   Tail(xs))

\* lines[start:stop]
Slice(lines, start, stop) ==
    SubSeq(lines, (IF start < 0 THEN 0 ELSE start) + 1,
           IF stop > Len(lines) THEN Len(lines) ELSE stop)

_extract_context(file_analyses, bug_files) ==
    LET all_patterns == Flatten([k \in 1..Len(file_analyses) |-> file_analyses[k].patterns])
        has(p) == p \in Range(all_patterns)
        with_content == SelectSeq(file_analyses,
                                  LAMBDA f : /\ f.path \in DOMAIN bug_files
                                             /\ bug_files[f.path] # <<>>)
        changed_lines(f) ==
            LET touched == SelectSeq(f.changes,
                                     LAMBDA c : /\ c.type \in {"removed", "modified"}
                                                /\ c.line_numbers.bug # None)
            IN  [k \in 1..Len(touched) |-> touched[k].line_numbers.bug]
        file_context(path) ==
            LET f == CHOOSE g \in Range(with_content) : g.path = path
                lines == bug_files[path]
            IN  [path |-> path,
                 changed_lines |-> changed_lines(f),
                 context_lines |->
                     [line_num \in Range(changed_lines(f)) |->
                         [line |-> line_num,
                          content |-> IF line_num <= Len(lines) THEN lines[line_num] ELSE <<>>,
                          before |-> Slice(lines, Max({0, line_num - 3}), line_num - 1),
                          after |-> Slice(lines, line_num, Min({Len(lines), line_num + 2}))]]]
    IN  [summary |-> When(has("missing_code"), "Missing code. ")
                     \o When(has("extraneous_code"), "Extraneous code. ")
                     \o When(has("incorrect_logic"), "Incorrect logic. ")
                     \o When(has("off_by_one"), "Off-by-one error. ")
                     \o When(has("condition_inversion"), "Inverted condition. ")
                     \o When(has("error_handling"), "Missing error handling. "),
         file_contexts |-> [path \in {f.path : f \in Range(with_content)} |->
                               file_context(path)]]

\* the loop of analyze_bug_fix over diffs.keys(), from the result so far
RECURSIVE analyze_files(_, _, _, _)
analyze_files(acc, bug_files, fixed_files, diffs) ==
    IF diffs = <<>> THEN acc
    ELSE LET file_path == Head(diffs)
             updated(file_analysis) ==
                 [changed_files |-> Append(acc.changed_files, file_analysis),
                  bug_patterns |-> AppendNew(acc.bug_patterns, file_analysis.patterns),
                  complexity |->
                      [score |-> acc.complexity.score + file_analysis.complexity.score,
                       factors |-> AppendNew(acc.complexity.factors,
                                             file_analysis.complexity.factors)]]
         IN  IF file_path \notin DOMAIN bug_files \/ file_path \notin DOMAIN fixed_files
             THEN analyze_files(acc, bug_files, fixed_files, Tail(diffs))
             ELSE analyze_files(
                      updated(_analyze_file_changes(file_path, bug_files[file_path],
                                                    fixed_files[file_path], <<>>)),
                      bug_files, fixed_files, Tail(diffs))

analyze_bug_fix(bug_files, fixed_files, diffs) ==
    LET with_context(files) ==
            [changed_files |-> files.changed_files,
             bug_patterns |-> files.bug_patterns,
             context |-> _extract_context(files.changed_files, bug_files),
             complexity |-> files.complexity]
    IN  with_context(analyze_files([changed_files |-> <<>>, bug_patterns |-> <<>>,
                                    complexity |-> [score |-> 0, factors |-> <<>>]],
                                   bug_files, fixed_files, diffs))

(***************************************************************************)
(* EvaluationMetrics (core/metrics.py).  An analysis is what               *)
(* analyze_bug_fix returns.  Where the code builds a list by iterating     *)
(* over a Python set, the list is modelled as the set of its elements.     *)
(***************************************************************************)
MetricNames == <<"correctness", "completeness", "pattern_match",
                 "cleanliness", "efficiency", "complexity">>

_get_default_metrics ==
    [m \in Range(MetricNames) |->
        [weight |-> CASE m = "correctness" -> Rat(35, 100)
                      [] m = "completeness" -> Rat(15, 100)
                      [] m = "pattern_match" -> Rat(10, 100)
                      [] m = "cleanliness" -> Rat(15, 100)
                      [] m = "efficiency" -> Rat(10, 100)
                      [] m = "complexity" -> Rat(15, 100),
         enabled |-> TRUE]]

\* EvaluationMetrics.__init__: a config key 'weight_<metric>' of a known
\* metric overrides that metric's weight, every other key is ignored
EvaluationMetrics_init(config) ==
    [m \in Range(MetricNames) |->
        IF ("weight_" \o m) \in DOMAIN config
        THEN [_get_default_metrics[m] EXCEPT !.weight = config["weight_" \o m]]
        ELSE _get_default_metrics[m]]

\* analysis.get("changed_files", []), analysis.get("bug_patterns", []), and
\* analysis.get("complexity", {}) with its .get("score", 0), .get("factors", [])
changed_files_of(analysis) ==
    IF "changed_files" \in DOMAIN analysis THEN analysis.changed_files ELSE <<>>

bug_patterns_of(analysis) ==
    IF "bug_patterns" \in DOMAIN analysis THEN analysis.bug_patterns ELSE <<>>

complexity_of(analysis) ==
    IF "complexity" \in DOMAIN analysis THEN analysis.complexity
    ELSE [score |-> 0, factors |-> <<>>]

Paths(analysis) == {changed_files_of(analysis)[k].path : k \in 1..Len(changed_files_of(analysis))}

\* next((f for f in analysis["changed_files"] if f["path"] == file), None)
FileOf(analysis, file) ==
    LET files == changed_files_of(analysis)
    IN  files[Min({k \in 1..Len(files) : files[k].path = file})]

\* touched_lines collecting the modified records only
touched_lines_modified_only(changes) ==
    {changes[k].line_numbers.bug :
        k \in {j \in 1..Len(changes) : /\ changes[j].type = "modified"
                                       /\ changes[j].line_numbers.bug # None}}

\* the bug-side line numbers of the removed and modified records
touched_lines(changes) ==
    {changes[k].line_numbers.bug :
        k \in {j \in 1..Len(changes) : /\ changes[j].type \in {"modified", "removed"}
                                       /\ changes[j].line_numbers.bug # None}}

_compare_file_changes(engineer_file, ai_file) ==
    LET engineer_lines == touched_lines(engineer_file.changes)
        ai_lines == touched_lines(ai_file.changes)
        common_lines == engineer_lines \cap ai_lines
        union_lines == engineer_lines \cup ai_lines
    IN  IF engineer_file.changes = <<>> THEN Zero
        ELSE IF ai_file.changes = <<>> THEN Zero
        ELSE IF union_lines = {} THEN Zero
        ELSE Rat(Cardinality(common_lines), Cardinality(union_lines))

RECURSIVE RSum(_, _)
RSum(S, f) ==
    IF S = {} THEN Zero
    ELSE LET x == CHOOSE y \in S : TRUE IN RAdd(f[x], RSum(S \ {x}, f))

_calc_correctness(engineer, ai) ==
    LET engineer_files == Paths(engineer)
        ai_files == Paths(ai)
        missed_files == engineer_files \ ai_files
        extra_files == ai_files \ engineer_files
        common_files == engineer_files \cap ai_files
        file_scores ==
            [file \in engineer_files \cup ai_files |->
                IF file \in common_files
                THEN _compare_file_changes(FileOf(engineer, file), FileOf(ai, file))
                ELSE Zero]
        score == IF engineer_files = {} THEN Zero
                 ELSE IF common_files = {} THEN Zero
                 ELSE RDiv(RSum(engineer_files, file_scores),
                           Rat(Cardinality(engineer_files), 1))
    IN  [score |-> score,
         details |->
            [file_scores |-> file_scores,
             factors |->
                (IF missed_files # {}
                 THEN <<[text |-> "AI missed changes to files",
                         count |-> Cardinality(missed_files)]>> ELSE <<>>)
                \o (IF extra_files # {}
                    THEN <<[text |-> "AI made unnecessary changes to files",
                            count |-> Cardinality(extra_files)]>> ELSE <<>>)
                \o (IF engineer_files = {}
                    THEN <<[text |-> "Reference solution made no changes", count |-> 0]>>
                    ELSE <<>>)]]

\* _calc_completeness dividing by the number of the AI's patterns
_calc_completeness_over_ai(engineer, ai) ==
    LET engineer_patterns == Range(bug_patterns_of(engineer))
        ai_patterns == Range(bug_patterns_of(ai))
        addressed_patterns == engineer_patterns \cap ai_patterns
        missed_patterns == engineer_patterns \ ai_patterns
    IN  [score |-> IF engineer_patterns = {} \/ ai_patterns = {} THEN One
                   ELSE Rat(Cardinality(addressed_patterns), Cardinality(ai_patterns)),
         details |-> [addressed_patterns |-> addressed_patterns,
                      missed_patterns |-> missed_patterns,
                      total_patterns |-> Cardinality(engineer_patterns)]]

_calc_completeness(engineer, ai) ==
    LET engineer_patterns == Range(bug_patterns_of(engineer))
        ai_patterns == Range(bug_patterns_of(ai))
        addressed_patterns == engineer_patterns \cap ai_patterns
        missed_patterns == engineer_patterns \ ai_patterns
    IN  [score |-> IF engineer_patterns = {} THEN One
                   ELSE Rat(Cardinality(addressed_patterns), Cardinality(engineer_patterns)),
         details |-> [addressed_patterns |-> addressed_patterns,
                      missed_patterns |-> missed_patterns,
                      total_patterns |-> Cardinality(engineer_patterns)]]

\* _calc_pattern_match dividing by the number of the engineer's patterns
_calc_pattern_match_over_engineer(engineer, ai) ==
    LET engineer_patterns == Range(bug_patterns_of(engineer))
        ai_patterns == Range(bug_patterns_of(ai))
        matched_patterns == engineer_patterns \cap ai_patterns
        pattern_similarity ==
            IF engineer_patterns = {} /\ ai_patterns = {} THEN One
            ELSE IF engineer_patterns = {} \/ ai_patterns = {} THEN Zero
            ELSE Rat(Cardinality(matched_patterns), Cardinality(engineer_patterns))
    IN  [score |-> pattern_similarity,
         details |-> [matched_patterns |-> matched_patterns,
                      engineer_only |-> engineer_patterns \ ai_patterns,
                      ai_only |-> ai_patterns \ engineer_patterns,
                      pattern_similarity |-> pattern_similarity]]

_calc_pattern_match(engineer, ai) ==
    LET engineer_patterns == Range(bug_patterns_of(engineer))
        ai_patterns == Range(bug_patterns_of(ai))
        matched_patterns == engineer_patterns \cap ai_patterns
        pattern_similarity ==
            IF engineer_patterns = {} /\ ai_patterns = {} THEN One
            ELSE IF engineer_patterns = {} \/ ai_patterns = {} THEN Zero
            ELSE Rat(Cardinality(matched_patterns),
                     Cardinality(engineer_patterns \cup ai_patterns))
    IN  [score |-> pattern_similarity,
         details |-> [matched_patterns |-> matched_patterns,
                      engineer_only |-> engineer_patterns \ ai_patterns,
                      ai_only |-> ai_patterns \ engineer_patterns,
                      pattern_similarity |-> pattern_similarity]]

MaxLineLength == 100

\* change_style_issues looking at the text of every record, removed ones too
change_style_issues_any_record(file, change) ==
    LET content == IF change.type = "removed" THEN change.content.bug
                   ELSE change.content.fixed
        issue(text, deduction) ==
            <<[text |-> text, path |-> file.path, deduction |-> deduction]>>
    IN  (IF \/ Contains(content, <<"T", "O", "D", "O">>)
            \/ Contains(content, <<"F", "I", "X", "M", "E">>)
         THEN issue("TODO/FIXME comment", Rat(5, 100)) ELSE <<>>)
        \o (IF Len(content) > MaxLineLength
            THEN issue("Long line", Rat(2, 100)) ELSE <<>>)
        \o (IF file.file_type = "python"
            THEN (IF Contains(content, <<"i", "m", "p", "o", "r", "t", " ", "*">>)
                  THEN issue("Wildcard import", Rat(10, 100)) ELSE <<>>)
            ELSE IF file.file_type \in {"javascript", "typescript"}
            THEN (IF Contains(content, <<"v", "a", "r", " ">>)
                  THEN issue("'var' usage", Rat(5, 100)) ELSE <<>>)
            ELSE <<>>)

\* the style issues of one change record of a file, with their deductions
change_style_issues(file, change) ==
    LET content == change.content.fixed
        issue(text, deduction) ==
            <<[text |-> text, path |-> file.path, deduction |-> deduction]>>
    IN  IF change.type # "added" /\ change.type # "modified" THEN <<>>
        ELSE (IF \/ Contains(content, <<"T", "O", "D", "O">>)
                 \/ Contains(content, <<"F", "I", "X", "M", "E">>)
              THEN issue("TODO/FIXME comment", Rat(5, 100)) ELSE <<>>)
             \o (IF Len(content) > MaxLineLength
                 THEN issue("Long line", Rat(2, 100)) ELSE <<>>)
             \o (IF file.file_type = "python"
                 THEN (IF Contains(content, <<"i", "m", "p", "o", "r", "t", " ", "*">>)
                       THEN issue("Wildcard import", Rat(10, 100)) ELSE <<>>)
                 ELSE IF file.file_type \in {"javascript", "typescript"}
                 THEN (IF Contains(content, <<"v", "a", "r", " ">>)
                       THEN issue("'var' usage", Rat(5, 100)) ELSE <<>>)
                 ELSE <<>>)

\* score -= deduction, for each issue: each amount as often as it occurs
Deduct(score, issues) ==
    LET amounts == {issues[k].deduction : k \in 1..Len(issues)}
        times(amount) == Cardinality({k \in 1..Len(issues) : issues[k].deduction = amount})
    IN  RSub(score, RSum(amounts, [a \in amounts |-> RMul(a, Rat(times(a), 1))]))

_calc_cleanliness(engineer, ai) ==
    LET ai_files == changed_files_of(ai)
        style_issues ==
            Flatten([k \in 1..Len(ai_files) |->
                Flatten([j \in 1..Len(ai_files[k].changes) |->
                    change_style_issues(ai_files[k], ai_files[k].changes[j])])])
    IN  [score |-> RMax(Zero, RMin(One, Deduct(One, style_issues))),
         details |-> [style_issues |-> [k \in 1..Len(style_issues) |->
                                           [text |-> style_issues[k].text,
                                            path |-> style_issues[k].path]],
                      good_practices |-> IF style_issues = <<>>
                                         THEN <<"No style issues detected">> ELSE <<>>]]

\* efficiency_ratio dividing the AI's total by the engineer's
efficiency_ratio_ai_over_engineer(engineer_total, ai_total) ==
    IF 2 * ai_total < engineer_total THEN Rat(7, 10)
    ELSE IF ai_total > 2 * engineer_total THEN Rat(5, 10)
    ELSE Rat(ai_total, engineer_total)

\* efficiency_ratio with the two overriding values exchanged
efficiency_ratio_overrides_exchanged(engineer_total, ai_total) ==
    IF 2 * ai_total < engineer_total THEN Rat(5, 10)
    ELSE IF ai_total > 2 * engineer_total THEN Rat(7, 10)
    ELSE Rat(Min({engineer_total, ai_total}), Max({engineer_total, ai_total}))

\* the ratio of one common file (metrics.py lines 434-444), for totals > 0
efficiency_ratio(engineer_total, ai_total) ==
    IF 2 * ai_total < engineer_total THEN Rat(7, 10)
    ELSE IF ai_total > 2 * engineer_total THEN Rat(5, 10)
    ELSE Rat(Min({engineer_total, ai_total}), Max({engineer_total, ai_total}))

line_counts(file) ==
    LET added == Count(file.changes, "added")
        modified == Count(file.changes, "modified")
        removed == Count(file.changes, "removed")
    IN  [added |-> added, modified |-> modified, removed |-> removed,
         total |-> added + modified + removed]

\* _calc_efficiency averaging over every common file
_calc_efficiency_over_common(engineer, ai) ==
    LET scored(common_files, line_count_comparison, counted) ==
            IF common_files = {}
            THEN [score |-> Rat(5, 10),
                  details |-> [line_count_comparison |-> line_count_comparison,
                               factors |-> {[text |-> "No common files to compare efficiency",
                                             path |-> <<>>]}]]
            ELSE [score |-> IF Cardinality(counted) > 0
                            THEN RDiv(RSum(counted,
                                           [f \in counted |->
                                               efficiency_ratio(
                                                   line_count_comparison[f].engineer.total,
                                                   line_count_comparison[f].ai.total)]),
                                      Rat(Cardinality(common_files), 1))
                            ELSE Rat(5, 10),
                  details |->
                     [line_count_comparison |-> line_count_comparison,
                      factors |-> {}]]
        counting(common_files, line_count_comparison) ==
            scored(common_files, line_count_comparison,
                   {f \in common_files : /\ line_count_comparison[f].engineer.total > 0
                                         /\ line_count_comparison[f].ai.total > 0})
        comparing(common_files) ==
            counting(common_files,
                     [file_path \in common_files |->
                         [engineer |-> line_counts(FileOf(engineer, file_path)),
                          ai |-> line_counts(FileOf(ai, file_path))]])
    IN  comparing(Paths(engineer) \cap Paths(ai))

_calc_efficiency(engineer, ai) ==
    LET scored(common_files, line_count_comparison, counted) ==
            IF common_files = {}
            THEN [score |-> Rat(5, 10),
                  details |-> [line_count_comparison |-> line_count_comparison,
                               factors |-> {[text |-> "No common files to compare efficiency",
                                             path |-> <<>>]}]]
            ELSE [score |-> IF Cardinality(counted) > 0
                            THEN RDiv(RSum(counted,
                                           [f \in counted |->
                                               efficiency_ratio(
                                                   line_count_comparison[f].engineer.total,
                                                   line_count_comparison[f].ai.total)]),
                                      Rat(Cardinality(counted), 1))
                            ELSE Rat(5, 10),
                  details |->
                     [line_count_comparison |-> line_count_comparison,
                      factors |->
                         {[text |-> "AI solution is much smaller than reference", path |-> f] :
                            f \in {g \in counted : 2 * line_count_comparison[g].ai.total
                                                   < line_count_comparison[g].engineer.total}}
                         \cup
                         {[text |-> "AI solution is much larger than reference", path |-> f] :
                            f \in {g \in counted : line_count_comparison[g].ai.total
                                                   > 2 * line_count_comparison[g].engineer.total}}
                         \cup
                         (IF Cardinality(counted) > 0 THEN {}
                          ELSE {[text |-> "No valid files to compare efficiency",
                                 path |-> <<>>]})]]
        counting(common_files, line_count_comparison) ==
            scored(common_files, line_count_comparison,
                   {f \in common_files : /\ line_count_comparison[f].engineer.total > 0
                                         /\ line_count_comparison[f].ai.total > 0})
        comparing(common_files) ==
            counting(common_files,
                     [file_path \in common_files |->
                         [engineer |-> line_counts(FileOf(engineer, file_path)),
                          ai |-> line_counts(FileOf(ai, file_path))]])
    IN  comparing(Paths(engineer) \cap Paths(ai))

\* _calc_complexity without the floor of the penalty of a more complex solution
_calc_complexity_no_floor(engineer, ai) ==
    LET engineer_score == complexity_of(engineer).score
        ai_score == complexity_of(ai).score
        ratio == Rat(ai_score, engineer_score)
        comparison == [engineer |-> [score |-> engineer_score,
                                     factors |-> complexity_of(engineer).factors],
                       ai |-> [score |-> ai_score, factors |-> complexity_of(ai).factors]]
        outcome ==
            IF engineer_score = 0
            THEN (IF ai_score = 0 THEN [score |-> One, factors |-> <<>>]
                  ELSE [score |-> Zero,
                        factors |-> <<"AI solution is more complex than necessary">>])
            ELSE IF RLt(ratio, Rat(7, 10))
            THEN [score |-> Rat(7, 10), factors |-> <<"AI solution may be too simple">>]
            ELSE IF RLt(Rat(13, 10), ratio)
            THEN [score |-> RSub(One, RSub(ratio, One)),
                  factors |-> <<"AI solution is more complex than reference">>]
            ELSE [score |-> RSub(One, RAbs(RSub(One, ratio))), factors |-> <<>>]
    IN  [score |-> outcome.score,
         details |-> [complexity_comparison |-> comparison, factors |-> outcome.factors]]

_calc_complexity(engineer, ai) ==
    LET engineer_score == complexity_of(engineer).score
        ai_score == complexity_of(ai).score
        ratio == Rat(ai_score, engineer_score)
        comparison == [engineer |-> [score |-> engineer_score,
                                     factors |-> complexity_of(engineer).factors],
                       ai |-> [score |-> ai_score, factors |-> complexity_of(ai).factors]]
        outcome ==
            IF engineer_score = 0
            THEN (IF ai_score = 0 THEN [score |-> One, factors |-> <<>>]
                  ELSE [score |-> Zero,
                        factors |-> <<"AI solution is more complex than necessary">>])
            ELSE IF RLt(ratio, Rat(7, 10))
            THEN [score |-> Rat(7, 10), factors |-> <<"AI solution may be too simple">>]
            ELSE IF RLt(Rat(13, 10), ratio)
            THEN [score |-> RMax(Zero, RSub(One, RSub(ratio, One))),
                  factors |-> <<"AI solution is more complex than reference">>]
            ELSE [score |-> RSub(One, RAbs(RSub(One, ratio))), factors |-> <<>>]
    IN  [score |-> outcome.score,
         details |-> [complexity_comparison |-> comparison, factors |-> outcome.factors]]

\* {} when the side does not change the path
side_changes(analysis, file_path) ==
    IF file_path \in Paths(analysis)
    THEN LET file == FileOf(analysis, file_path)
         IN  [patterns |-> file.patterns,
              change_count |-> Len(file.changes),
              complexity |-> file.complexity]
    ELSE <<>>

\* _generate_comparison counting a common file once for each side
_generate_comparison_total_by_side(engineer, ai) ==
    LET engineer_files == Paths(engineer)
        ai_files == Paths(ai)
        all_files == engineer_files \cup ai_files
    IN  [files |-> [file_path \in all_files |->
                       [in_engineer |-> file_path \in engineer_files,
                        in_ai |-> file_path \in ai_files,
                        engineer_changes |-> side_changes(engineer, file_path),
                        ai_changes |-> side_changes(ai, file_path)]],
         summary |-> [common_files |-> Cardinality(engineer_files \cap ai_files),
                      engineer_only |-> Cardinality(engineer_files \ ai_files),
                      ai_only |-> Cardinality(ai_files \ engineer_files),
                      total_files |-> Cardinality(engineer_files) + Cardinality(ai_files)]]

_generate_comparison(engineer, ai) ==
    LET engineer_files == Paths(engineer)
        ai_files == Paths(ai)
        all_files == engineer_files \cup ai_files
    IN  [files |-> [file_path \in all_files |->
                       [in_engineer |-> file_path \in engineer_files,
                        in_ai |-> file_path \in ai_files,
                        engineer_changes |-> side_changes(engineer, file_path),
                        ai_changes |-> side_changes(ai, file_path)]],
         summary |-> [common_files |-> Cardinality(engineer_files \cap ai_files),
                      engineer_only |-> Cardinality(engineer_files \ ai_files),
                      ai_only |-> Cardinality(ai_files \ engineer_files),
                      total_files |-> Cardinality(all_files)]]

strength_sentence(metric_name) ==
    CASE metric_name = "correctness" -> "Solution correctly fixes the bug"
      [] metric_name = "completeness" -> "Solution addresses all aspects of the bug"
      [] metric_name = "pattern_match" -> "Solution uses similar fix patterns as reference"
      [] metric_name = "cleanliness" -> "Solution follows good coding practices"
      [] metric_name = "efficiency" -> "Solution is efficient in its approach"
      [] metric_name = "complexity" -> "Solution has appropriate complexity"

weakness_sentence(metric_name) ==
    CASE metric_name = "correctness" -> "Solution does not correctly fix the bug"
      [] metric_name = "completeness" -> "Solution misses aspects of the bug"
      [] metric_name = "pattern_match" -> "Solution uses different fix patterns than reference"
      [] metric_name = "cleanliness" -> "Solution has code quality issues"
      [] metric_name = "efficiency" -> "Solution is not efficient in its approach"
      [] metric_name = "complexity" -> "Solution has inappropriate complexity"

\* the metrics of a result, in the order evaluate inserted them
metric_order(result_metrics) ==
    SelectSeq(MetricNames, LAMBDA m : m \in DOMAIN result_metrics)

_identify_strengths(result_metrics) ==
    LET strong == SelectSeq(metric_order(result_metrics),
                            LAMBDA m : RLe(Rat(8, 10), result_metrics[m].score))
    IN  [k \in 1..Len(strong) |-> strength_sentence(strong[k])]

\* a weakness from a score of 0.5 on
_identify_weaknesses_up_to_half(result_metrics) ==
    LET weak == SelectSeq(metric_order(result_metrics),
                          LAMBDA m : RLe(result_metrics[m].score, Rat(5, 10)))
    IN  [k \in 1..Len(weak) |-> weakness_sentence(weak[k])]

_identify_weaknesses(result_metrics) ==
    LET weak == SelectSeq(metric_order(result_metrics),
                          LAMBDA m : RLt(result_metrics[m].score, Rat(5, 10)))
    IN  [k \in 1..Len(weak) |-> weakness_sentence(weak[k])]

\* getattr(self, f"_calc_{metric_name}")(engineer_analysis, ai_analysis)
metric_func(metric_name, engineer, ai) ==
    CASE metric_name = "correctness" -> _calc_correctness(engineer, ai)
      [] metric_name = "completeness" -> _calc_completeness(engineer, ai)
      [] metric_name = "pattern_match" -> _calc_pattern_match(engineer, ai)
      [] metric_name = "cleanliness" -> _calc_cleanliness(engineer, ai)
      [] metric_name = "efficiency" -> _calc_efficiency(engineer, ai)
      [] metric_name = "complexity" -> _calc_complexity(engineer, ai)

\* sum(score * weight) over the metrics of the result, in the loop's order
RECURSIVE weighted_sum(_, _)
weighted_sum(names, result_metrics) ==
    IF names = <<>> THEN Zero
    ELSE RAdd(RMul(result_metrics[Head(names)].score, result_metrics[Head(names)].weight),
              weighted_sum(Tail(names), result_metrics))

\* total_weight_of taking the weights to sum to 1
total_weight_assumed_one(names, self_metrics) == One

RECURSIVE total_weight_of(_, _)
total_weight_of(names, self_metrics) ==
    IF names = <<>> THEN Zero
    ELSE RAdd(self_metrics[Head(names)].weight, total_weight_of(Tail(names), self_metrics))

\* overall_score_of scaling to 100 without dividing by the total weight
overall_score_not_normalised(raw_score, total_weight) ==
    RMul(raw_score, Rat(100, 1))

\* overall_score_of dividing by the total weight even when it is zero: the
\* quotient is then no finite number
overall_score_always_divided(raw_score, total_weight) ==
    IF total_weight.n = 0 THEN [n |-> raw_score.n, d |-> 0]
    ELSE RMul(RDiv(raw_score, total_weight), Rat(100, 1))

\* the normalisation of the overall score (metrics.py lines 84-87)
overall_score_of(raw_score, total_weight) ==
    IF RLt(Zero, total_weight)
    THEN RMul(RDiv(raw_score, total_weight), Rat(100, 1))
    ELSE raw_score

evaluate(self_metrics, engineer, ai) ==
    LET enabled == SelectSeq(MetricNames, LAMBDA m : self_metrics[m].enabled)
        entry(metric_name, calc) ==
            [score |-> calc.score,
             weight |-> self_metrics[metric_name].weight,
             details |-> calc.details]
        results(result_metrics) ==
            [overall_score |-> overall_score_of(weighted_sum(enabled, result_metrics),
                                                total_weight_of(enabled, self_metrics)),
             metrics |-> result_metrics,
             comparison |-> _generate_comparison(engineer, ai),
             strengths |-> _identify_strengths(result_metrics),
             weaknesses |-> _identify_weaknesses(result_metrics)]
    IN  results([m \in Range(enabled) |-> entry(m, metric_func(m, engineer, ai))])

(***************************************************************************)
(* The inputs of one run.  The run evaluates fixes of a python file and of *)
(* a java file; each side's analysis request names the files it changed,   *)
(* with their buggy and fixed contents.                                    *)
(***************************************************************************)
MaxLines == 3

PathA == <<"a", ".", "p", "y">>
PathB == <<"b", ".", "j", "a", "v", "a">>

LineX1 == <<"x", " ", "=", " ", "1">>
LineX2 == <<"x", " ", "=", " ", "2">>
LineRun == <<"r", "u", "n", "(", ")", ";">>
LineSync == Str_synchronized \o <<" ", "(", "m", ")", " ", "{", " ">> \o LineRun
            \o <<" ", "}", " ", "/", "/", " ", "T", "O", "D", "O">>

Vocabulary == {LineX1, LineX2}

\* the contents of at most n lines over the vocabulary
RECURSIVE TextsUpTo(_)
TextsUpTo(n) ==
    IF n = 0 THEN {<<>>}
    ELSE LET shorter == TextsUpTo(n - 1)
         IN  shorter \cup {Append(t, l) : t \in shorter, l \in Vocabulary}

BaseA == <<LineX1, LineX1>>
BaseB == <<LineRun>>

\* one file of a request: its path and its buggy and fixed content, each
\* a sequence of one content, or empty when the content could not be read
FilesA == {[path |-> PathA, bug |-> <<BaseA>>, fixed |-> <<t>>] : t \in TextsUpTo(MaxLines)}

FilesB == {[path |-> PathB, bug |-> <<BaseB>>, fixed |-> << <<LineSync>> >>],
           [path |-> PathB, bug |-> <<>>, fixed |-> <<BaseB>>]}

Requests == {<<>>} \cup {<<a>> : a \in FilesA} \cup {<<b>> : b \in FilesB}
            \cup {<<a, b>> : a \in FilesA, b \in FilesB}

\* the bug_files or fixed_files dictionary of a request
contents_of(request, side) ==
    [path \in {request[k].path : k \in {j \in 1..Len(request) : request[j][side] # <<>>}} |->
        LET file == CHOOSE f \in Range(request) : f.path = path IN file[side][1]]

analyze_request(request) ==
    analyze_bug_fix(contents_of(request, "bug"), contents_of(request, "fixed"),
                    [k \in 1..Len(request) |-> request[k].path])

\* the metrics configurations of a run: none, all weights zero, and weights
\* that do not sum to 1 beside keys that name no metric
Configs ==
    {<<>>,
     [weight_correctness |-> Zero, weight_completeness |-> Zero,
      weight_pattern_match |-> Zero, weight_cleanliness |-> Zero,
      weight_efficiency |-> Zero, weight_complexity |-> Zero],
     [weight_correctness |-> Rat(2, 1), weight_cleanliness |-> Rat(1, 2),
      weight_speed |-> One, threshold |-> One]}

(***************************************************************************)
(* Configuration (utils/config.py).  Python dictionaries are objects on a  *)
(* heap: heap[a] is the dictionary at address a, a function from its keys  *)
(* to values, and a value that is itself a dictionary is held by its       *)
(* address.  The module-level DEFAULT_CONFIG and its two nested            *)
(* dictionaries are the first three objects.  handed lists the addresses   *)
(* of the configurations handed out to callers, validation holds the last  *)
(* configuration given to validate_config and the errors it returned.      *)
(***************************************************************************)
VStr(s) == [kind |-> "str", str |-> s, num |-> Zero, ref |-> 0]
VNum(r) == [kind |-> "num", str |-> "", num |-> r, ref |-> 0]
VNone == [kind |-> "none", str |-> "", num |-> Zero, ref |-> 0]
VDict(a) == [kind |-> "dict", str |-> "", num |-> Zero, ref |-> a]

\* the address of the module-level dictionary
DEFAULT_CONFIG == 1

ModuleHeap ==
    <<[log_level |-> VStr("INFO"), work_dir |-> VNone,
       metrics |-> VDict(2), report |-> VDict(3)],
      [weight_correctness |-> VNum(Rat(30, 100)),
       weight_completeness |-> VNum(Rat(15, 100)),
       weight_pattern_match |-> VNum(Rat(10, 100)),
       weight_cleanliness |-> VNum(Rat(15, 100)),
       weight_efficiency |-> VNum(Rat(15, 100)),
       weight_complexity |-> VNum(Rat(15, 100))],
      [output_dir |-> VStr("reports"), html_template_path |-> VNone,
       text_template_path |-> VNone, markdown_template_path |-> VNone]>>

\* d[k] = v
Put(d, k, v) == [x \in DOMAIN d \cup {k} |-> IF x = k THEN v ELSE d[x]]

\* the configuration at address a with its nested dictionaries in place
RECURSIVE value_of(_, _)
value_of(h, a) ==
    [k \in DOMAIN h[a] |->
        IF h[a][k].kind = "dict"
        THEN [kind |-> "object", items |-> value_of(h, h[a][k].ref)]
        ELSE h[a][k]]

\* DEFAULT_CONFIG.copy(): a new dictionary holding the same values, its
\* nested dictionaries are the ones of DEFAULT_CONFIG
copy(h, a) == Append(h, h[a])

\* _merge_configs(base, override); override is a dictionary read from a
\* file: a function from keys to values, a nested dictionary of values is
\* [kind |-> "object", items |-> ...]
RECURSIVE _merge_configs(_, _, _)
_merge_configs(h, base, override) ==
    IF DOMAIN override = {} THEN h
    ELSE LET key == CHOOSE k \in DOMAIN override : TRUE
             value == override[key]
             rest == [k \in DOMAIN override \ {key} |-> override[k]]
             merged ==
                 IF value.kind = "object"
                 THEN IF key \in DOMAIN h[base] /\ h[base][key].kind = "dict"
                      THEN _merge_configs(h, h[base][key].ref, value.items)
                      ELSE [Append(h, value.items) EXCEPT
                                ![base] = Put(@, key, VDict(Len(h) + 1))]
                 ELSE [h EXCEPT ![base] = Put(@, key, value)]
         IN  _merge_configs(merged, base, rest)

\* load_config(config_path): the heap after the call, the configuration
\* returned is its last object but those that the merge stored.  A file
\* that is missing or is not JSON is [kind |-> "missing"]
load_config(h, file) ==
    IF file.kind = "object"
    THEN _merge_configs(copy(h, DEFAULT_CONFIG), Len(h) + 1, file.items)
    ELSE copy(h, DEFAULT_CONFIG)

\* set_config_value(config, key, value), parts is key.split('.'); a part
\* that is missing on the way becomes a new dictionary, a part on the way
\* that is not a dictionary raises TypeError
RECURSIVE set_config_value(_, _, _, _)
set_config_value(h, current, parts, value) ==
    IF Len(parts) = 1 THEN [h EXCEPT ![current] = Put(@, parts[1], value)]
    ELSE IF parts[1] \notin DOMAIN h[current]
         THEN set_config_value([Append(h, <<>>) EXCEPT
                                    ![current] = Put(@, parts[1], VDict(Len(h) + 1))],
                               Len(h) + 1, Tail(parts), value)
         ELSE IF h[current][parts[1]].kind = "dict"
              THEN set_config_value(h, h[current][parts[1]].ref, Tail(parts), value)
              ELSE h

\* bool(value)
truthy(value) ==
    \/ value.kind = "str" /\ value.str # ""
    \/ value.kind = "num" /\ value.num # Zero
    \/ value.kind = "object" /\ DOMAIN value.items # {}

LogLevels == {"DEBUG", "INFO", "WARNING", "ERROR", "CRITICAL"}

\* the keys k of the model with k.startswith('weight_')
WeightKeys == {"weight_" \o m : m \in Range(MetricNames)} \cup {"weight_speed"}

TemplateKeys == {"html_template_path", "text_template_path", "markdown_template_path"}

\* the paths p with os.path.exists(p)
ExistingPaths == {"templates/report.html"}

\* the one error, if any
ErrorIf(condition, error) == IF condition THEN {error} ELSE {}

\* config.get(key, {}) of a key that holds a dictionary or is missing
section(config, key) ==
    IF key \in DOMAIN config /\ config[key].kind = "object" THEN config[key].items ELSE <<>>

\* d.get(key)
get(d, key) == IF key \in DOMAIN d THEN d[key] ELSE VNone

\* the sum of the weights that are numbers and not negative
valid_weights(weights) ==
    {k \in DOMAIN weights \cap WeightKeys :
        weights[k].kind = "num" /\ ~RLt(weights[k].num, Zero)}

\* a validation without tolerance
off_by_anything(total_weight, rounded_above) == total_weight # One

\* abs(total_weight - 1.0) > 0.01.  The code computes with binary floating
\* point and the model with exact rationals: where the exact difference is
\* 0.01 the rounding of the float sum decides (0.31 + 0.15 + 0.10 + 0.15 +
\* 0.15 + 0.15 compares as above), which is the choice rounded_above
off_by_more_than_tolerance(total_weight, rounded_above) ==
    LET difference == RAbs(RSub(total_weight, One))
    IN  RLt(Rat(1, 100), difference) \/ (difference = Rat(1, 100) /\ rounded_above)

\* validate_config(config): the dictionary of errors, a message is given
\* without the value that the code formats into it
validate_config(config, rounded_above) ==
    LET log_level == get(config, "log_level")
        weights == section(config, "metrics")
        report == section(config, "report")
        valid == valid_weights(weights)
        total_weight == RSum(valid, [k \in valid |-> weights[k].num])
        found ==
            ErrorIf(truthy(log_level) /\ ~(log_level.kind = "str" /\ log_level.str \in LogLevels),
                 <<"log_level", "Invalid log level">>)
            \cup {<<"metrics." \o k, "Weight must be a number">> :
                    k \in {w \in DOMAIN weights \cap WeightKeys : weights[w].kind # "num"}}
            \cup {<<"metrics." \o k, "Weight must be non-negative">> :
                    k \in {w \in DOMAIN weights \cap WeightKeys :
                              weights[w].kind = "num" /\ RLt(weights[w].num, Zero)}}
            \cup ErrorIf(RLt(Zero, total_weight)
                          /\ off_by_more_than_tolerance(total_weight, rounded_above),
                      <<"metrics.weights", "Weights should sum to 1.0">>)
            \cup ErrorIf(truthy(get(report, "output_dir"))
                          /\ get(report, "output_dir").kind # "str",
                      <<"report.output_dir", "Output directory must be a string">>)
            \cup {<<"report." \o k, "Template path must be a string">> :
                    k \in {t \in TemplateKeys :
                              truthy(get(report, t)) /\ get(report, t).kind # "str"}}
            \cup {<<"report." \o k, "Template file does not exist">> :
                    k \in {t \in TemplateKeys :
                              /\ truthy(get(report, t))
                              /\ get(report, t).kind = "str"
                              /\ get(report, t).str \notin ExistingPaths}}
    IN  [key \in {e[1] : e \in found} |-> (CHOOSE e \in found : e[1] = key)[2]]

InitConfig ==
    /\ heap = ModuleHeap
    /\ handed = <<>>
    /\ validation = [config |-> <<>>, errors |-> <<>>]

(***************************************************************************)
(* Waiting for the results file (bug_fix_cursor_evaluator).  now is the    *)
(* clock in seconds, results_file the file as the agent left it, watcher   *)
(* the call of FileWatcher.wait_for_results and cli the wait command.      *)
(* watcher.found is the data of the file at the poll that found it         *)
(* existing, parsed and valid, if there was one.                           *)
(* A Python value is a dictionary (its items as a set of pairs), a list    *)
(* or a bool.                                                              *)
(***************************************************************************)
PyDict(items) == [type |-> "dict", items |-> items, bool |-> FALSE]
PyList(items) == [type |-> "list", items |-> items, bool |-> FALSE]
PyBool(b) == [type |-> "bool", items |-> {}, bool |-> b]

\* the results file: missing, a directory, bytes that are not UTF-8, text
\* that is not JSON, or JSON text
ResultsFiles ==
    {[kind |-> "missing", data |-> PyBool(FALSE)],
     [kind |-> "directory", data |-> PyBool(FALSE)],
     [kind |-> "not_utf8", data |-> PyBool(FALSE)],
     [kind |-> "not_json", data |-> PyBool(FALSE)],
     [kind |-> "json", data |-> PyDict({})],
     [kind |-> "json", data |-> PyList({<<0, 1>>})],
     [kind |-> "json", data |-> PyDict({<<"overall", 85>>})]}

\* FileWatcher._load_json_file(path): the exception raised, or the data
_load_json_file(file) ==
    CASE file.kind = "missing" -> [raised |-> "IOError", data |-> PyBool(FALSE)]
      [] file.kind = "directory" -> [raised |-> "IOError", data |-> PyBool(FALSE)]
      [] file.kind = "not_utf8" -> [raised |-> "UnicodeDecodeError", data |-> PyBool(FALSE)]
      [] file.kind = "not_json" -> [raised |-> "JSONDecodeError", data |-> PyBool(FALSE)]
      [] file.kind = "json" -> [raised |-> "", data |-> file.data]

\* the default validator: data and isinstance(data, dict)
validator(data) == data.type = "dict" /\ data.items # {}

\* one pass of the loop body of FileWatcher.wait_for_results, up to the
\* sleep: "return" with True, "raise" of an exception that is not caught,
\* or "sleep"
poll(file) ==
    IF file.kind = "missing" THEN [then |-> "sleep", raised |-> ""]
    ELSE LET loaded == _load_json_file(file)
         IN  IF loaded.raised \in {"JSONDecodeError", "IOError"}
             THEN [then |-> "sleep", raised |-> ""]
             ELSE IF loaded.raised # "" THEN [then |-> "raise", raised |-> loaded.raised]
             ELSE IF validator(loaded.data) THEN [then |-> "return", raised |-> ""]
             ELSE [then |-> "sleep", raised |-> ""]

check_interval == 5

Timeouts == {0, 5, 12}

InitWait ==
    /\ now = 0
    /\ results_file \in {f \in ResultsFiles : f.kind = "missing"}
    /\ watcher = [pc |-> "idle", start_time |-> 0, timeout |-> 0,
                  found |-> PyBool(FALSE), returned |-> FALSE, raised |-> ""]
    /\ cli = [pc |-> "idle", results |-> PyBool(FALSE)]

(***************************************************************************)
(* One evaluation run of BugFixEvaluator (evaluate_from_pr, ...): it is    *)
(* constructed, the engineer's fix is analysed, the AI's fix is analysed,  *)
(* the two analyses are evaluated.                                         *)
(***************************************************************************)
NoValue == <<>>

Init ==
    /\ pc = "constructed"
    /\ \E config \in Configs : metrics = EvaluationMetrics_init(config)
    /\ engineer_analysis = NoValue
    /\ ai_analysis = NoValue
    /\ result = NoValue
    /\ collected = NoValue
    /\ InitConfig
    /\ InitWait
    /\ calls = <<>>

AnalyzeEngineer ==
    /\ pc = "constructed"
    /\ \E request \in Requests : engineer_analysis' = analyze_request(request)
    /\ pc' = "engineer_analyzed"
    /\ UNCHANGED <<calls, metrics, ai_analysis, result, collected, config_vars, wait_vars>>

AnalyzeAI ==
    /\ pc = "engineer_analyzed"
    /\ \E request \in Requests : ai_analysis' = analyze_request(request)
    /\ pc' = "ai_analyzed"
    /\ UNCHANGED <<calls, metrics, engineer_analysis, result, collected, config_vars, wait_vars>>

Evaluate ==
    /\ pc = "ai_analyzed"
    /\ result' = evaluate(metrics, engineer_analysis, ai_analysis)
    /\ pc' = "evaluated"
    /\ UNCHANGED <<calls, metrics, engineer_analysis, ai_analysis, collected, config_vars, wait_vars>>

Next == AnalyzeEngineer \/ AnalyzeAI \/ Evaluate

Spec == Init /\ [][Next]_vars

(***************************************************************************)
(* The properties of an evaluation.  R is the reference analysis (the      *)
(* engineer's), C the candidate analysis (the AI's).                       *)
(***************************************************************************)
Evaluated == pc = "evaluated"

Score(metric_name) == result.metrics[metric_name].score

Weight(metric_name) == metrics[metric_name].weight

WeightedScore(metric_name) == RMul(Score(metric_name), Weight(metric_name))

\* the sum of a value for each of the six metrics
SumOfSix(f) ==
    RAdd(f["correctness"], RAdd(f["completeness"], RAdd(f["pattern_match"],
    RAdd(f["cleanliness"], RAdd(f["efficiency"], f["complexity"])))))

TotalWeight == SumOfSix([m \in Range(MetricNames) |-> Weight(m)])

Hundred == Rat(100, 1)

NonNegativeWeights == \A m \in Range(MetricNames) : RLe(Zero, Weight(m))

\* the weight table of the instance with every weight multiplied by factor
scaled(factor) ==
    [m \in DOMAIN metrics |-> [metrics[m] EXCEPT !.weight = RMul(factor, @)]]

ScaleFactors == {Rat(3, 1), Rat(1, 2)}

\* the entries of an analysis for a path, and the records of a path
files_at(analysis, path) == {f \in Range(analysis.changed_files) : f.path = path}

records_at(analysis, path) == UNION {Range(f.changes) : f \in files_at(analysis, path)}

\* the before-side line numbers of the removed and modified records of a path
before_lines(analysis, path) ==
    {c.line_numbers.bug : c \in {d \in records_at(analysis, path) :
                                     d.type \in {"removed", "modified"}}}

\* the number of change records of a path
record_count(analysis, path) ==
    LET changes == (CHOOSE f \in files_at(analysis, path) : TRUE).changes
    IN  Cardinality({k \in 1..Len(changes) :
                        changes[k].type \in {"added", "modified", "removed"}})

\* C1: with non-negative weights, all zero included, the overall score of
\* an evaluation lies between 0 and 100
OverallScoreInRange ==
    (Evaluated /\ NonNegativeWeights) =>
        /\ RLe(Zero, result.overall_score)
        /\ RLe(result.overall_score, Hundred)

OverallScoreInRangeWitness ==
    /\ Evaluated
    /\ \A m \in Range(MetricNames) : Weight(m) = Zero
    /\ \E m \in Range(MetricNames) : RLt(Zero, Score(m))
    /\ result.overall_score = Zero

\* C2: when the weights sum to a positive total, the overall score is
\* 100 * sum(score * weight) / sum(weight), whether or not the weights sum
\* to 1, and multiplying every weight by one positive factor leaves it unchanged
OverallScoreIsNormalisedMean ==
    (Evaluated /\ RLt(Zero, TotalWeight)) =>
        /\ result.overall_score
               = RDiv(RMul(Hundred, SumOfSix([m \in Range(MetricNames) |-> WeightedScore(m)])), TotalWeight)
        /\ \A factor \in ScaleFactors :
               evaluate(scaled(factor), engineer_analysis, ai_analysis).overall_score
                   = result.overall_score

OverallScoreIsNormalisedMeanWitness ==
    /\ Evaluated
    /\ RLt(One, TotalWeight)
    /\ RLt(Zero, result.overall_score)
    /\ RLt(result.overall_score, Hundred)

\* C3: each of the six metric scores of an evaluation of two analyses made
\* by analyze_bug_fix lies between 0 and 1
MetricScoresInUnitRange ==
    Evaluated =>
        /\ DOMAIN result.metrics = Range(MetricNames)
        /\ \A m \in Range(MetricNames) : RLe(Zero, Score(m)) /\ RLe(Score(m), One)

MetricScoresInUnitRangeWitness ==
    /\ Evaluated
    /\ Score("efficiency") = Rat(2, 3)
    /\ Score("complexity") = Zero
    /\ Score("completeness") = One

\* where every path common to R and C has a removed or modified line on
\* some side, so that the quotient of the line sets is defined
OverlapDefined ==
    \A p \in Paths(engineer_analysis) \cap Paths(ai_analysis) :
        before_lines(engineer_analysis, p) \cup before_lines(ai_analysis, p) # {}

\* |R_lines \cap C_lines| / |R_lines \cup C_lines| of a path of R, 0 for a
\* path absent from C
line_similarity(path) ==
    IF path \notin Paths(ai_analysis) THEN Zero
    ELSE Rat(Cardinality(before_lines(engineer_analysis, path)
                         \cap before_lines(ai_analysis, path)),
             Cardinality(before_lines(engineer_analysis, path)
                         \cup before_lines(ai_analysis, path)))

\* C4: correctness is 0 when R changes no file or shares no path with C,
\* and otherwise the mean over the paths of R of the share of common lines
\* among the before-side lines removed or modified by R or C, a path absent
\* from C counting 0
CorrectnessIsMeanLineOverlap ==
    Evaluated =>
        LET R == Paths(engineer_analysis)
            C == Paths(ai_analysis)
        IN  /\ (R = {} \/ R \cap C = {}) => Score("correctness") = Zero
            /\ (R # {} /\ R \cap C # {} /\ OverlapDefined) =>
                   Score("correctness")
                       = RDiv(RSum(R, [p \in R |-> line_similarity(p)]),
                              Rat(Cardinality(R), 1))

CorrectnessIsMeanLineOverlapWitness ==
    /\ Evaluated
    /\ Cardinality(Paths(engineer_analysis)) = 2
    /\ Cardinality(Paths(ai_analysis)) = 1
    /\ Paths(ai_analysis) \subseteq Paths(engineer_analysis)
    /\ OverlapDefined
    /\ Score("correctness") = Rat(1, 4)

\* C5: when C makes exactly the changes of R, every changed file having a
\* change record, correctness and pattern_match are 1 and, under the default
\* weights and without a cleanliness deduction, the overall score exceeds 90
IdenticalChangesScorePerfect ==
    (/\ Evaluated
     /\ ai_analysis = engineer_analysis
     /\ engineer_analysis.changed_files # <<>>
     /\ \A f \in Range(engineer_analysis.changed_files) : f.changes # <<>>) =>
        /\ Score("correctness") = One
        /\ Score("pattern_match") = One
        /\ (metrics = _get_default_metrics /\ Score("cleanliness") = One) =>
               RLt(Rat(90, 1), result.overall_score)

\* C6: the comparison has one entry for each path of R or C, in exactly one
\* of the classes common, reference-only, candidate-only; an entry of one
\* side only has no annotation of the other side; the summary counts the
\* classes and they add up to total_files; disjoint R and C give correctness 0
ComparisonClassifiesPaths ==
    Evaluated =>
        LET R == Paths(engineer_analysis)
            C == Paths(ai_analysis)
            files == result.comparison.files
            summary == result.comparison.summary
            common == {p \in DOMAIN files : files[p].in_engineer /\ files[p].in_ai}
            reference_only == {p \in DOMAIN files :
                                  files[p].in_engineer /\ ~files[p].in_ai}
            candidate_only == {p \in DOMAIN files :
                                  ~files[p].in_engineer /\ files[p].in_ai}
        IN  /\ DOMAIN files = R \cup C
            /\ common = R \cap C
            /\ reference_only = R \ C
            /\ candidate_only = C \ R
            /\ \A p \in reference_only : /\ DOMAIN files[p].ai_changes = {}
                                         /\ DOMAIN files[p].engineer_changes # {}
            /\ \A p \in candidate_only : /\ DOMAIN files[p].engineer_changes = {}
                                         /\ DOMAIN files[p].ai_changes # {}
            /\ \A p \in common : /\ DOMAIN files[p].engineer_changes # {}
                                 /\ DOMAIN files[p].ai_changes # {}
            /\ summary.common_files = Cardinality(common)
            /\ summary.engineer_only = Cardinality(reference_only)
            /\ summary.ai_only = Cardinality(candidate_only)
            /\ summary.common_files + summary.engineer_only + summary.ai_only
                   = summary.total_files
            /\ summary.total_files = Cardinality(R \cup C)
            /\ R \cap C = {} => Score("correctness") = Zero

ComparisonClassifiesPathsWitness ==
    /\ Evaluated
    /\ Paths(engineer_analysis) = {PathA}
    /\ Paths(ai_analysis) = {PathB}
    /\ result.comparison.summary.engineer_only = 1
    /\ result.comparison.summary.ai_only = 1
    /\ result.comparison.summary.total_files = 2

\* the analysis C with one more pattern tag
with_pattern(analysis, tag) ==
    [analysis EXCEPT !.bug_patterns = AppendNew(@, <<tag>>)]

\* C7: completeness is |R.patterns \cap C.patterns| / |R.patterns|, and 1
\* when R has no pattern; the completeness of an analysis against itself is
\* 1; a pattern added to C never lowers it
CompletenessIsAddressedShare ==
    Evaluated =>
        LET R == Range(engineer_analysis.bug_patterns)
            C == Range(ai_analysis.bug_patterns)
        IN  /\ R # {} => Score("completeness")
                             = Rat(Cardinality(R \cap C), Cardinality(R))
            /\ R = {} => Score("completeness") = One
            /\ ai_analysis = engineer_analysis => Score("completeness") = One
            /\ _calc_completeness(engineer_analysis, engineer_analysis).score = One
            /\ _calc_completeness(ai_analysis, ai_analysis).score = One
            /\ \A tag \in R \cup {"security"} :
                   RLe(Score("completeness"),
                       _calc_completeness(engineer_analysis,
                                          with_pattern(ai_analysis, tag)).score)

CompletenessIsAddressedShareWitness ==
    /\ Evaluated
    /\ Score("completeness") = Rat(1, 2)
    /\ \E tag \in Range(engineer_analysis.bug_patterns) :
           RLt(Score("completeness"),
               _calc_completeness(engineer_analysis,
                                  with_pattern(ai_analysis, tag)).score)

\* C8: pattern_match is |R.patterns \cap C.patterns| / |R.patterns \cup
\* C.patterns|, 1 when both sets are empty and 0 when exactly one is; it is
\* the same with R and C exchanged, and is 1 exactly when the sets are equal
PatternMatchIsJaccard ==
    Evaluated =>
        LET R == Range(engineer_analysis.bug_patterns)
            C == Range(ai_analysis.bug_patterns)
        IN  /\ (R = {} /\ C = {}) => Score("pattern_match") = One
            /\ ((R = {}) # (C = {})) => Score("pattern_match") = Zero
            /\ (R # {} /\ C # {}) =>
                   Score("pattern_match")
                       = Rat(Cardinality(R \cap C), Cardinality(R \cup C))
            /\ _calc_pattern_match(ai_analysis, engineer_analysis).score
                   = Score("pattern_match")
            /\ (Score("pattern_match") = One) <=> (R = C)

PatternMatchIsJaccardWitness ==
    /\ Evaluated
    /\ Range(engineer_analysis.bug_patterns) # Range(ai_analysis.bug_patterns)
    /\ Cardinality(Range(engineer_analysis.bug_patterns)) = 2
    /\ Score("pattern_match") = Rat(1, 3)

\* the complexity metric of reference score r and candidate score c
complexity_metric(r, c) ==
    IF r = 0 THEN (IF c = 0 THEN One ELSE Zero)
    ELSE IF 10 * c < 7 * r THEN Rat(7, 10)
    ELSE IF 10 * c > 13 * r THEN RMax(Zero, RSub(One, RSub(Rat(c, r), One)))
    ELSE RSub(One, RAbs(RSub(One, Rat(c, r))))

\* C9: the complexity metric is 1 or 0 for a reference score 0 as the
\* candidate's is 0 or not, else 0.7 below ratio 0.7, max(0, 1 - (ratio - 1))
\* above ratio 1.3 and 1 - |1 - ratio| between; it is 1 for equal non-zero
\* scores and 0 for a non-zero candidate score at least twice the reference's
ComplexityMetricIsPiecewise ==
    Evaluated =>
        LET r == engineer_analysis.complexity.score
            c == ai_analysis.complexity.score
        IN  /\ Score("complexity") = complexity_metric(r, c)
            /\ (r = c /\ r # 0) => Score("complexity") = One
            /\ (c >= 2 * r /\ c # 0) => Score("complexity") = Zero

ComplexityMetricIsPiecewiseWitness ==
    /\ Evaluated
    /\ engineer_analysis.complexity.score = 2
    /\ ai_analysis.complexity.score = 5
    /\ Score("complexity") = Zero

\* C9 as stated: the same, with 0 for every candidate score at least twice
\* the reference's
ComplexityZeroFromTwiceReference ==
    Evaluated =>
        LET r == engineer_analysis.complexity.score
            c == ai_analysis.complexity.score
        IN  /\ Score("complexity") = complexity_metric(r, c)
            /\ (r = c /\ r # 0) => Score("complexity") = One
            /\ c >= 2 * r => Score("complexity") = Zero

\* the paths common to R and C with a change record on both sides
counted_paths ==
    {p \in Paths(engineer_analysis) \cap Paths(ai_analysis) :
        record_count(engineer_analysis, p) > 0 /\ record_count(ai_analysis, p) > 0}

\* C10: for a path common to R and C with r > 0 records in R and c > 0 in
\* C, the efficiency ratio of the path (the efficiency score, when it is the
\* only such path) is 0.7 when c < 0.5 r, 0.5 when c > 2 r, else
\* min(r, c) / max(r, c)
PerFileEfficiencyRatio ==
    Evaluated =>
        \A p \in counted_paths :
            counted_paths = {p} =>
                LET r == record_count(engineer_analysis, p)
                    c == record_count(ai_analysis, p)
                IN  Score("efficiency")
                        = IF 2 * c < r THEN Rat(7, 10)
                          ELSE IF c > 2 * r THEN Rat(5, 10)
                          ELSE IF r <= c THEN Rat(r, c) ELSE Rat(c, r)

PerFileEfficiencyRatioWitness ==
    /\ Evaluated
    /\ counted_paths = {PathA}
    /\ 2 * record_count(ai_analysis, PathA) < record_count(engineer_analysis, PathA)
    /\ Score("efficiency") = Rat(7, 10)

\* the ratio of a path with r records in R and c records in C
per_file_ratio(r, c) ==
    IF 2 * c < r THEN Rat(7, 10)
    ELSE IF c > 2 * r THEN Rat(5, 10)
    ELSE IF r <= c THEN Rat(r, c) ELSE Rat(c, r)

\* the ratios of a set of paths
ratios_of(paths) ==
    [p \in paths |-> per_file_ratio(record_count(engineer_analysis, p),
                                    record_count(ai_analysis, p))]

\* C11: efficiency is the mean of the per-file ratios over the paths common
\* to R and C that have change records on both sides, and 0.5 when there is
\* no such path, in particular when R and C have no common path
EfficiencyIsMeanOfCountedRatios ==
    Evaluated =>
        /\ counted_paths # {} =>
               Score("efficiency") = RDiv(RSum(counted_paths, ratios_of(counted_paths)),
                                          Rat(Cardinality(counted_paths), 1))
        /\ counted_paths = {} => Score("efficiency") = Rat(1, 2)
        /\ Paths(engineer_analysis) \cap Paths(ai_analysis) = {} =>
               Score("efficiency") = Rat(1, 2)

EfficiencyIsMeanOfCountedRatiosWitness ==
    /\ Evaluated
    /\ counted_paths = {PathA, PathB}
    /\ Score("efficiency") = Rat(17, 20)

\* C11 as stated: efficiency is the mean of the per-file ratios over all the
\* paths common to R and C (each with a record on some side), and 0.5 when R
\* and C have no common path
EfficiencyIsMeanOverCommonPaths ==
    Evaluated =>
        LET common == Paths(engineer_analysis) \cap Paths(ai_analysis)
            changed == \A p \in common : record_count(engineer_analysis, p)
                                         + record_count(ai_analysis, p) > 0
        IN  /\ common = {} => Score("efficiency") = Rat(1, 2)
            /\ (common # {} /\ changed) =>
                   Score("efficiency") = RDiv(RSum(common, ratios_of(common)),
                                              Rat(Cardinality(common), 1))

(***************************************************************************)
(* The same run with the collection of the files of a fix and their        *)
(* analysis as separate steps (_analyze_directories): the files collected  *)
(* last stay at hand beside the analysis made of them.  The AI's fix       *)
(* ranges over fixes of one file that exercise the analyzer's cases and    *)
(* the style checks.                                                       *)
(***************************************************************************)
MaxBadLines == 6

PathC == <<"c", ".", "j", "s">>
PathD == <<"d", ".", "t", "s">>
PathE == <<"M", "a", "k", "e", "f", "i", "l", "e">>
PathF == <<"f", ".", "r", "s">>

LineTodo == <<"#", " ", "T", "O", "D", "O">>
LineTodoFixme == <<"#", " ", "T", "O", "D", "O", " ", "F", "I", "X", "M", "E">>
LineImport == <<"f", "r", "o", "m", " ", "m", " ", "i", "m", "p", "o", "r", "t", " ", "*">>
LineVar == <<"v", "a", "r", " ", "y", " ", "=", " ", "1", ";">>
LinePass == <<"p", "a", "s", "s">>
LineIncr == <<"+", "+", "i", ";">>
LineTry == <<"t", "r", "y", ":">>
\* a line of exactly the greatest length that is not long, and one longer
LineFull == [k \in 1..MaxLineLength |-> "z"]
LineLong == [k \in 1..(MaxLineLength + 1) |-> "z"]
\* a long line with a marker, a wildcard import and a var declaration
LineBad == <<"v", "a", "r", " ", "m", ";", " ", "i", "m", "p", "o", "r", "t", " ", "*", " ", "#", " ", "T", "O", "D", "O", " ">> \o LineLong

Repeat(line, n) == [k \in 1..n |-> line]

StyleBase == <<LineTodo, LineX1>>

FixedTexts ==
    {<<>>, StyleBase, <<LineX1>>, <<LineX2, LineX1>>, <<LineTodoFixme, LineX1>>,
     <<LineTodo, LineX2>>}
    \cup {Append(StyleBase, l) : l \in {LineTodoFixme, LineImport, LineVar, LineLong,
                                        LineFull, LinePass, LineX2, LineIncr, LineTry}}
    \cup {StyleBase \o Repeat(LineBad, n) : n \in 1..MaxBadLines}

\* fixes that make the same change to two lines apart
RepeatedFixes ==
    {[path |-> PathA, bug |-> << <<LineX1, LineTodo, LineX1>> >>,
      fixed |-> << <<LineX2, LineTodo, LineX2>> >>],
     [path |-> PathB, bug |-> << <<LineRun, LineTodo, LineRun>> >>,
      fixed |-> << <<LineSync, LineTodo, LineSync>> >>]}

\* fixes that replace two lines by two, exchange two lines, and remove a
\* line before an unchanged one and add one after it
BlockFixes ==
    {[path |-> PathA, bug |-> <<StyleBase>>, fixed |-> << <<LineTodoFixme, LineX2>> >>],
     [path |-> PathA, bug |-> <<StyleBase>>, fixed |-> << <<LineX1, LineTodo>> >>],
     [path |-> PathA, bug |-> << <<LineX1, LineTodo>> >>, fixed |-> << <<LineTodo, LineX2>> >>]}

PathG == <<"g", ".", "c", "p", "p">>
PathH == <<"g", ".", "h">>

\* fixes of files of the cpp family
CppFixes ==
    {[path |-> p, bug |-> <<StyleBase>>, fixed |-> << <<LineX1>> >>] : p \in {PathG, PathH}}

CandidateFiles ==
    {[path |-> p, bug |-> <<b>>, fixed |-> <<t>>] :
        p \in {PathA, PathB, PathC, PathD, PathE, PathF}, b \in {<<>>, StyleBase}, t \in FixedTexts}
    \cup RepeatedFixes \cup BlockFixes \cup CppFixes

CandidateRequests ==
    {<<>>} \cup {<<f>> : f \in CandidateFiles}
    \cup {<<[path |-> PathA, bug |-> <<StyleBase>>, fixed |-> <<Append(StyleBase, LineImport)>>],
            [path |-> PathC, bug |-> <<StyleBase>>, fixed |-> <<Append(StyleBase, LineVar)>>]>>,
          <<[path |-> PathB, bug |-> <<>>, fixed |-> <<BaseB>>],
            [path |-> PathA, bug |-> <<StyleBase>>, fixed |-> <<Append(StyleBase, LineImport)>>],
            [path |-> PathD, bug |-> <<StyleBase>>, fixed |-> <<>>],
            [path |-> PathC, bug |-> <<StyleBase>>, fixed |-> <<Append(StyleBase, LineVar)>>]>>}

ReferenceRequests ==
    {<<>>, <<[path |-> PathA, bug |-> <<StyleBase>>, fixed |-> << <<LineX1>> >>]>>}

CollectEngineerFiles ==
    /\ pc = "constructed"
    /\ collected' \in ReferenceRequests
    /\ pc' = "engineer_collected"
    /\ UNCHANGED <<calls, metrics, engineer_analysis, ai_analysis, result, config_vars, wait_vars>>

AnalyzeEngineerFiles ==
    /\ pc = "engineer_collected"
    /\ engineer_analysis' = analyze_request(collected)
    /\ pc' = "engineer_analyzed"
    /\ UNCHANGED <<calls, metrics, ai_analysis, result, collected, config_vars, wait_vars>>

CollectAIFiles ==
    /\ pc = "engineer_analyzed"
    /\ collected' \in CandidateRequests
    /\ pc' = "ai_collected"
    /\ UNCHANGED <<calls, metrics, engineer_analysis, ai_analysis, result, config_vars, wait_vars>>

AnalyzeAIFiles ==
    /\ pc = "ai_collected"
    /\ ai_analysis' = analyze_request(collected)
    /\ pc' = "ai_analyzed"
    /\ UNCHANGED <<calls, metrics, engineer_analysis, result, collected, config_vars, wait_vars>>

NextFiles ==
    CollectEngineerFiles \/ AnalyzeEngineerFiles \/ CollectAIFiles \/ AnalyzeAIFiles \/ Evaluate

SpecFiles == Init /\ [][NextFiles]_vars

\* the positions <<file, record>> of the added and modified records of an
\* analysis, and the line each of them leaves in the fixed file
written(analysis) ==
    {w \in UNION {{<<k, j>> : j \in 1..Len(analysis.changed_files[k].changes)} :
                      k \in 1..Len(analysis.changed_files)} :
        analysis.changed_files[w[1]].changes[w[2]].type \in {"added", "modified"}}

written_line(analysis, w) == analysis.changed_files[w[1]].changes[w[2]].content.fixed

written_in(analysis, w, file_types) == analysis.changed_files[w[1]].file_type \in file_types

Marker_TODO == <<"T", "O", "D", "O">>
Marker_FIXME == <<"F", "I", "X", "M", "E">>

\* the occurrences of a marker in the written lines: <<position, marker, column>>
marker_occurrences(analysis) ==
    UNION {{<<w, m, i>> : i \in {c \in 1..(Len(written_line(analysis, w)) - Len(m) + 1) :
                                    SubSeq(written_line(analysis, w), c, c + Len(m) - 1) = m}} :
              w \in written(analysis), m \in {Marker_TODO, Marker_FIXME}}

\* the deductions other than for markers, in hundredths
other_deductions(analysis) ==
    2 * Cardinality({w \in written(analysis) : Len(written_line(analysis, w)) > 100})
    + 10 * Cardinality({w \in written(analysis) :
                           /\ written_in(analysis, w, {"python"})
                           /\ Contains(written_line(analysis, w),
                                       <<"i", "m", "p", "o", "r", "t", " ", "*">>)})
    + 5 * Cardinality({w \in written(analysis) :
                          /\ written_in(analysis, w, {"javascript", "typescript"})
                          /\ Contains(written_line(analysis, w), <<"v", "a", "r", " ">>)})

marked_lines(analysis) == {occurrence[1] : occurrence \in marker_occurrences(analysis)}

clamped_hundredths(deductions) == Rat(IF deductions > 100 THEN 0 ELSE 100 - deductions, 100)

\* C12: cleanliness is a function of the candidate analysis alone: 1 minus
\* 0.05 per added or modified-after line that contains a TODO or FIXME
\* marker (once per line, however many markers it holds), minus 0.02 per
\* such line longer than 100 characters, minus 0.10 per such line with a
\* wildcard import in a python file, minus 0.05 per such line with 'var '
\* in a javascript or typescript file, clamped to [0, 1]; nothing of the
\* reference and no removed line enters the value
CleanlinessDeductsPerWrittenLine ==
    Evaluated =>
        Score("cleanliness") =
            clamped_hundredths(5 * Cardinality(marked_lines(ai_analysis))
                               + other_deductions(ai_analysis))

CleanlinessDeductsPerWrittenLineWitness ==
    /\ Evaluated
    /\ Cardinality(marked_lines(ai_analysis)) = MaxBadLines
    /\ other_deductions(ai_analysis) = 12 * MaxBadLines
    /\ Paths(engineer_analysis) = {PathA}
    /\ Score("cleanliness") = Zero

\* C12 as stated: the deduction for markers is 0.05 per TODO/FIXME marker
CleanlinessDeductsPerMarker ==
    Evaluated =>
        Score("cleanliness") =
            clamped_hundredths(5 * Cardinality(marker_occurrences(ai_analysis))
                               + other_deductions(ai_analysis))

(***************************************************************************)
(* EvaluationMetrics.evaluate called with analyses its caller hands over:  *)
(* analyses made by analyze_bug_fix, and the same without their            *)
(* changed_files.                                                          *)
(***************************************************************************)
Without(analysis, key) == [k \in DOMAIN analysis \ {key} |-> analysis[k]]

GivenRequests == ReferenceRequests \cup {<<f>> : f \in RepeatedFixes}

GivenAnalyses ==
    {analyze_request(r) : r \in GivenRequests}
    \cup {Without(analyze_request(r), "changed_files") : r \in GivenRequests}

GiveAnalyses ==
    /\ pc = "constructed"
    /\ engineer_analysis' \in GivenAnalyses
    /\ ai_analysis' \in GivenAnalyses
    /\ pc' = "ai_analyzed"
    /\ UNCHANGED <<calls, metrics, result, collected, config_vars, wait_vars>>

NextGiven == GiveAnalyses \/ Evaluate

SpecGiven == Init /\ [][NextGiven]_vars

(***************************************************************************)
(* An evaluation run whose EvaluationMetrics is built from the 'metrics'   *)
(* section of get_default_config(), as BugFixEvaluator.__init__ builds it  *)
(* from the configuration that load_config returns without a file.         *)
(***************************************************************************)
get_default_config ==
    [log_level |-> "INFO",
     work_dir |-> NoValue,
     metrics |-> [weight_correctness |-> Rat(30, 100),
                  weight_completeness |-> Rat(15, 100),
                  weight_pattern_match |-> Rat(10, 100),
                  weight_cleanliness |-> Rat(15, 100),
                  weight_efficiency |-> Rat(15, 100),
                  weight_complexity |-> Rat(15, 100)]]

InitDefault ==
    /\ pc = "constructed"
    /\ metrics = EvaluationMetrics_init(get_default_config.metrics)
    /\ engineer_analysis = NoValue
    /\ ai_analysis = NoValue
    /\ result = NoValue
    /\ collected = NoValue
    /\ InitConfig
    /\ InitWait
    /\ calls = <<>>

SpecDefault == InitDefault /\ [][Next]_vars

(***************************************************************************)
(* evaluate_from_commits with the failures of its boundary operations.     *)
(* A failed clone is raised to the caller.  A failed checkout or diff      *)
(* inside _analyze_commit is caught there and an analysis without changed  *)
(* files, carrying the error text, is returned in place of the analysis.   *)
(* A file that cannot be read is left out of bug_files or fixed_files.     *)
(***************************************************************************)
\* what _analyze_commit returns from its except clause
substituted_analysis ==
    [error |-> "Error analyzing commit", changed_files |-> <<>>, bug_patterns |-> <<>>,
     context |-> <<>>, complexity |-> [score |-> 0, factors |-> <<>>]]

CommitRequests ==
    ReferenceRequests \cup {<<f>> : f \in RepeatedFixes \cup FilesB}

CloneRepository ==
    /\ pc = "constructed"
    /\ pc' = "cloned"
    /\ UNCHANGED <<calls, metrics, engineer_analysis, ai_analysis, result, collected, config_vars, wait_vars>>

CloneRepositoryFails ==
    /\ pc = "constructed"
    /\ pc' = "raised"
    /\ UNCHANGED <<calls, metrics, engineer_analysis, ai_analysis, result, collected, config_vars, wait_vars>>

AnalyzeEngineerCommit ==
    /\ pc = "cloned"
    /\ \E files \in CommitRequests : engineer_analysis' = analyze_request(files)
    /\ pc' = "engineer_analyzed"
    /\ UNCHANGED <<calls, metrics, ai_analysis, result, collected, config_vars, wait_vars>>

AnalyzeEngineerCommitFails ==
    /\ pc = "cloned"
    /\ engineer_analysis' = substituted_analysis
    /\ pc' = "engineer_analyzed"
    /\ UNCHANGED <<calls, metrics, ai_analysis, result, collected, config_vars, wait_vars>>

AnalyzeAICommit ==
    /\ pc = "engineer_analyzed"
    /\ \E files \in CommitRequests : ai_analysis' = analyze_request(files)
    /\ pc' = "ai_analyzed"
    /\ UNCHANGED <<calls, metrics, engineer_analysis, result, collected, config_vars, wait_vars>>

AnalyzeAICommitFails ==
    /\ pc = "engineer_analyzed"
    /\ ai_analysis' = substituted_analysis
    /\ pc' = "ai_analyzed"
    /\ UNCHANGED <<calls, metrics, engineer_analysis, result, collected, config_vars, wait_vars>>

NextCommits ==
    \/ CloneRepository \/ CloneRepositoryFails
    \/ AnalyzeEngineerCommit \/ AnalyzeEngineerCommitFails
    \/ AnalyzeAICommit \/ AnalyzeAICommitFails
    \/ Evaluate

SpecCommits == Init /\ [][NextCommits]_vars

\* an analysis has been made of the files collected last, and is at hand
Analysed == pc \in {"engineer_analyzed", "ai_analyzed", "evaluated"}

analysis_at_hand == IF pc = "engineer_analyzed" THEN engineer_analysis ELSE ai_analysis

\* the collected files with both contents read, each with its FileAnalysis
analysed_files ==
    {pair \in Range(collected) \X Range(analysis_at_hand.changed_files) :
        /\ pair[1].path = pair[2].path
        /\ pair[1].bug # <<>>
        /\ pair[1].fixed # <<>>}

\* the before and the after text of a collected file
before_text(file) == file.bug[1]
after_text(file) == file.fixed[1]

\* C13: an analysed file whose before text equals its after text has an
\* empty change sequence; it contributes to the submission's complexity
\* what the rule table gives a file without changed lines: 1 (few_changes),
\* 2 more for a path without ".", 1 more for java or rust; it contributes 0
\* only when its text is empty (it is then a binary_change)
UnchangedFileScoresAsFewChanges ==
    Analysed =>
        \A pair \in analysed_files :
            before_text(pair[1]) = after_text(pair[1]) =>
                /\ pair[2].changes = <<>>
                /\ IF before_text(pair[1]) = <<>>
                   THEN pair[2].patterns = <<"binary_change">> /\ pair[2].complexity.score = 0
                   ELSE /\ pair[2].patterns = <<>>
                        /\ pair[2].complexity.score =
                               1 + (IF "." \in Range(pair[1].path) THEN 0 ELSE 2)
                               + (IF pair[2].file_type \in {"java", "rust"} THEN 1 ELSE 0)
                /\ Len(collected) = 1 =>
                       analysis_at_hand.complexity.score = pair[2].complexity.score

UnchangedFileScoresAsFewChangesWitness ==
    /\ Analysed
    /\ Len(collected) = 1
    /\ collected[1].path = PathB
    /\ before_text(collected[1]) = StyleBase
    /\ after_text(collected[1]) = StyleBase
    /\ analysed_files # {}
    /\ analysis_at_hand.changed_files[1].changes = <<>>
    /\ analysis_at_hand.complexity = [score |-> 2, factors |-> <<"few_changes", "complex_language">>]

\* C13 as stated: an analysed file whose before text equals its after text
\* has an empty change sequence and contributes 0 to the complexity score
UnchangedFileContributesNothing ==
    Analysed =>
        \A pair \in analysed_files :
            before_text(pair[1]) = after_text(pair[1]) =>
                /\ pair[2].changes = <<>>
                /\ pair[2].complexity.score = 0

\* s is t with some of its elements left out
RECURSIVE IsSubsequence(_, _)
IsSubsequence(s, t) ==
    IF s = <<>> THEN TRUE
    ELSE IF t = <<>> THEN FALSE
    ELSE IF Head(s) = Head(t) THEN IsSubsequence(Tail(s), Tail(t))
    ELSE IsSubsequence(s, Tail(t))

\* the after text of a file is its before text plus inserted lines
PureInsertion(file) ==
    /\ Len(after_text(file)) > Len(before_text(file))
    /\ IsSubsequence(before_text(file), after_text(file))

OnlyAdded(file_analysis) ==
    /\ file_analysis.changes # <<>>
    /\ \A k \in 1..Len(file_analysis.changes) : file_analysis.changes[k].type = "added"

added_lines(file_analysis) ==
    {file_analysis.changes[k].content.fixed : k \in 1..Len(file_analysis.changes)}

Keywords_error_handling ==
    {<<"t", "r", "y">>, <<"c", "a", "t", "c", "h">>, <<"e", "x", "c", "e", "p", "t">>,
     <<"f", "i", "n", "a", "l", "l", "y">>}

\* C14: the patterns of a file all of whose change records are Added, at
\* least one, contain missing_code and neither extraneous_code nor
\* incorrect_logic; beside it they contain error_handling exactly when an
\* added line holds try, catch, except or finally, initialization exactly
\* when an added line holds an assignment, and no other tag
OnlyAddedIsMissingCodeWithContentTags ==
    Analysed =>
        \A pair \in analysed_files :
            OnlyAdded(pair[2]) =>
                /\ "missing_code" \in Range(pair[2].patterns)
                /\ Range(pair[2].patterns) \subseteq {"missing_code", "error_handling", "initialization"}
                /\ "error_handling" \in Range(pair[2].patterns) <=>
                       \E line \in added_lines(pair[2]) :
                           \E word \in Keywords_error_handling : Contains(line, word)
                /\ "initialization" \in Range(pair[2].patterns) <=>
                       \E line \in added_lines(pair[2]) : search_assignment(line)

OnlyAddedIsMissingCodeWithContentTagsWitness ==
    /\ Analysed
    /\ Len(collected) = 1
    /\ PureInsertion(collected[1])
    /\ after_text(collected[1]) = Append(StyleBase, LineTry)
    /\ analysed_files # {}
    /\ OnlyAdded(analysis_at_hand.changed_files[1])
    /\ analysis_at_hand.changed_files[1].patterns = <<"missing_code", "error_handling">>

\* C14 as stated: the pattern set of a file whose after text is its before
\* text plus only inserted lines is exactly {missing_code}
PureInsertionIsExactlyMissingCode ==
    Analysed =>
        \A pair \in analysed_files :
            PureInsertion(pair[1]) => Range(pair[2].patterns) = {"missing_code"}

\* C15: the change sequence of a file with an empty before text and n >= 1
\* after lines is n Added records, of the after lines 1..n; that of a file
\* with an empty after text and n >= 1 before lines is n Removed records,
\* of the before lines 1..n
EmptySideGivesAllAddedOrAllRemoved ==
    Analysed =>
        \A pair \in analysed_files :
            /\ (before_text(pair[1]) = <<>> /\ Len(after_text(pair[1])) >= 1) =>
                   pair[2].changes =
                       [k \in 1..Len(after_text(pair[1])) |->
                           [type |-> "added",
                            line_numbers |-> [bug |-> None, fixed |-> k],
                            content |-> [bug |-> <<>>, fixed |-> after_text(pair[1])[k]]]]
            /\ (after_text(pair[1]) = <<>> /\ Len(before_text(pair[1])) >= 1) =>
                   pair[2].changes =
                       [k \in 1..Len(before_text(pair[1])) |->
                           [type |-> "removed",
                            line_numbers |-> [bug |-> k, fixed |-> None],
                            content |-> [bug |-> before_text(pair[1])[k], fixed |-> <<>>]]]

NoDuplicates(tags) == Cardinality(Range(tags)) = Len(tags)

SetSemantics(analysis) ==
    /\ NoDuplicates(analysis.bug_patterns)
    /\ \A k \in 1..Len(analysis.changed_files) : NoDuplicates(analysis.changed_files[k].patterns)

\* C16: no patterns of a file analysis and no bug_patterns of an analysis
\* made by analyze_bug_fix holds the same tag twice
PatternTagsHaveSetSemantics ==
    /\ pc \in {"engineer_analyzed", "ai_analyzed", "evaluated"} => SetSemantics(engineer_analysis)
    /\ pc \in {"ai_analyzed", "evaluated"} => SetSemantics(ai_analysis)

\* a number of the model that stands for a finite number
Finite(q) == q.n \in Int /\ q.d \in Nat \ {0}

Invalid(analysis) == "changed_files" \notin DOMAIN analysis

\* C18: when an analysis handed to evaluate lacks its changed_files, the
\* evaluation aborts and no result is produced
MissingChangedFilesAborts ==
    (pc \in {"ai_analyzed", "evaluated"} /\ (Invalid(engineer_analysis) \/ Invalid(ai_analysis))) =>
        DOMAIN result = {}

Substituted(analysis) == "error" \in DOMAIN analysis

\* C19: no result is produced from an analysis that was put in the place of
\* an analysis that failed: a failure of a boundary operation shows as
\* omitted files or is raised to the caller
SubstitutedAnalysisIsNeverScored ==
    DOMAIN result # {} => ~Substituted(engineer_analysis) /\ ~Substituted(ai_analysis)

StatedWeights ==
    [m \in Range(MetricNames) |->
        CASE m = "correctness" -> Rat(35, 100)
          [] m = "completeness" -> Rat(15, 100)
          [] m = "pattern_match" -> Rat(10, 100)
          [] m = "cleanliness" -> Rat(15, 100)
          [] m = "efficiency" -> Rat(10, 100)
          [] m = "complexity" -> Rat(15, 100)]

\* C20: the weights of the built-in table and of get_default_config() are
\* 0.35, 0.15, 0.10, 0.15, 0.10, 0.15, and an evaluation built from
\* get_default_config()['metrics'] scores with exactly these weights
DefaultConfigScoresWithStatedWeights ==
    /\ \A m \in Range(MetricNames) : _get_default_metrics[m].weight = StatedWeights[m]
    /\ \A m \in Range(MetricNames) :
           get_default_config.metrics["weight_" \o m] = StatedWeights[m]
    /\ DOMAIN result # {} =>
           \A m \in Range(MetricNames) : result.metrics[m].weight = StatedWeights[m]

(***************************************************************************)
(* Callers of utils/config.py: configurations are asked for, changed by    *)
(* their holders and validated, in any order.                              *)
(***************************************************************************)
MaxConfigs == 2

Missing == [kind |-> "missing"]
Object(items) == [kind |-> "object", items |-> items]

ConfigFiles ==
    {Missing,
     Object([log_level |-> VStr("DEBUG")]),
     Object([metrics |-> Object([weight_correctness |-> VNum(Rat(40, 100))])]),
     Object([cache |-> Object([size |-> VNum(One)]),
             report |-> Object([output_dir |-> VStr("out")])])}

SetRequests ==
    {[key |-> <<"log_level">>, value |-> VStr("DEBUG")],
     [key |-> <<"log_level">>, value |-> VStr("INVALID")],
     [key |-> <<"metrics", "weight_correctness">>, value |-> VNum(Rat(40, 100))],
     [key |-> <<"metrics", "weight_correctness">>, value |-> VNum(Rat(31, 100))],
     [key |-> <<"metrics", "weight_correctness">>, value |-> VNum(Rat(305, 1000))],
     [key |-> <<"metrics", "weight_correctness">>, value |-> VNum(Rat(-10, 100))],
     [key |-> <<"metrics", "weight_correctness">>, value |-> VStr("high")],
     [key |-> <<"report", "output_dir">>, value |-> VNum(One)],
     [key |-> <<"report", "html_template_path">>, value |-> VStr("templates/missing.html")],
     [key |-> <<"new", "key">>, value |-> VStr("value")]}

GetDefaultConfig ==
    /\ Len(handed) < MaxConfigs
    /\ heap' = copy(heap, DEFAULT_CONFIG)
    /\ handed' = Append(handed, Len(heap) + 1)
    /\ UNCHANGED <<calls, pc, metrics, engineer_analysis, ai_analysis, result, collected, validation, wait_vars>>

LoadConfig ==
    /\ Len(handed) < MaxConfigs
    /\ \E file \in ConfigFiles : heap' = load_config(heap, file)
    /\ handed' = Append(handed, Len(heap) + 1)
    /\ UNCHANGED <<calls, pc, metrics, engineer_analysis, ai_analysis, result, collected, validation, wait_vars>>

SetConfigValue ==
    /\ \E config \in Range(handed), request \in SetRequests :
           heap' = set_config_value(heap, config, request.key, request.value)
    /\ UNCHANGED <<calls, pc, metrics, engineer_analysis, ai_analysis, result, collected,
                   handed, validation, wait_vars>>

ValidateConfig ==
    /\ \E config \in Range(handed), rounded_above \in BOOLEAN :
           validation' = [config |-> value_of(heap, config),
                          errors |-> validate_config(value_of(heap, config), rounded_above)]
    /\ UNCHANGED <<calls, pc, metrics, engineer_analysis, ai_analysis, result, collected,
                   heap, handed, wait_vars>>

NextConfig == GetDefaultConfig \/ LoadConfig \/ SetConfigValue

SpecConfig == InitDefault /\ [][NextConfig]_vars

\* one configuration is asked for, changed and validated
NextValidate ==
    \/ handed = <<>> /\ (GetDefaultConfig \/ LoadConfig)
    \/ SetConfigValue
    \/ ValidateConfig

SpecValidate == InitDefault /\ [][NextValidate]_vars

\* C21: whatever configurations were handed out, loaded and changed, the
\* next get_default_config() returns the original default values
DefaultsAreNeverChanged ==
    value_of(heap, DEFAULT_CONFIG) = value_of(ModuleHeap, DEFAULT_CONFIG)

validated == validation.config

\* the weights of the validated configuration are numbers, not negative
well_formed_weights ==
    \A k \in DOMAIN section(validated, "metrics") \cap WeightKeys :
        /\ section(validated, "metrics")[k].kind = "num"
        /\ ~RLt(section(validated, "metrics")[k].num, Zero)

validated_total ==
    LET weights == section(validated, "metrics")
        valid == valid_weights(weights)
    IN  RSum(valid, [k \in valid |-> weights[k].num])

valid_log_level ==
    get(validated, "log_level").kind = "str" /\ get(validated, "log_level").str \in LogLevels

no_template_paths ==
    \A t \in TemplateKeys : get(section(validated, "report"), t) = VNone

output_dir_is_text ==
    get(section(validated, "report"), "output_dir").kind \in {"str", "none"}

\* C22: validate_config returns no error for a configuration with a valid
\* log level, no template paths, an output directory that is a string or
\* missing, and weights that are numbers, not negative and sum to 1.0 within
\* less than 0.01; it returns an error under 'metrics.weights' whenever the
\* valid weights sum to a positive total more than 0.01 off 1.0; it never
\* changes a configuration
ValidateConfigAcceptsAndRejects ==
    /\ [](/\ valid_log_level /\ no_template_paths /\ output_dir_is_text
          /\ well_formed_weights
          /\ RLt(RAbs(RSub(validated_total, One)), Rat(1, 100))
          => DOMAIN validation.errors = {})
    /\ [](RLt(Zero, validated_total) /\ RLt(Rat(1, 100), RAbs(RSub(validated_total, One)))
          => "metrics.weights" \in DOMAIN validation.errors)
    /\ [][validation' # validation => heap' = heap]_vars

ValidateConfigAcceptsAndRejectsWitness ==
    /\ valid_log_level /\ no_template_paths /\ output_dir_is_text /\ well_formed_weights
    /\ validated_total = Rat(1005, 1000)
    /\ DOMAIN validation.errors = {}
    /\ heap # ModuleHeap

\* C22 as stated: no error whenever the weights are numbers, not negative
\* and sum to 1.0 within 0.01, the log level is valid and there are no
\* template paths
ValidateConfigAcceptsWithinTolerance ==
    /\ valid_log_level /\ no_template_paths /\ well_formed_weights
    /\ RLe(RAbs(RSub(validated_total, One)), Rat(1, 100))
    => DOMAIN validation.errors = {}

Occurrences(sentences, sentence) ==
    Cardinality({k \in 1..Len(sentences) : sentences[k] = sentence})

StrongMetrics == {m \in DOMAIN result.metrics : RLe(Rat(8, 10), result.metrics[m].score)}
WeakMetrics == {m \in DOMAIN result.metrics : RLt(result.metrics[m].score, Rat(5, 10))}

\* C23: the strengths of a result hold exactly one sentence for each metric
\* with a score of at least 0.8, its weaknesses exactly one for each metric
\* with a score below 0.5; a metric in between adds to neither list and no
\* metric adds to both
StrengthsAndWeaknessesByThreshold ==
    DOMAIN result # {} =>
        /\ Len(result.strengths) = Cardinality(StrongMetrics)
        /\ Len(result.weaknesses) = Cardinality(WeakMetrics)
        /\ \A m \in DOMAIN result.metrics :
            /\ Occurrences(result.strengths, strength_sentence(m))
                   = IF m \in StrongMetrics THEN 1 ELSE 0
            /\ Occurrences(result.weaknesses, weakness_sentence(m))
                   = IF m \in WeakMetrics THEN 1 ELSE 0
            /\ Occurrences(result.strengths, weakness_sentence(m)) = 0
            /\ Occurrences(result.weaknesses, strength_sentence(m)) = 0
            /\ ~(m \in StrongMetrics /\ m \in WeakMetrics)

StrengthsAndWeaknessesByThresholdWitness ==
    /\ DOMAIN result # {}
    /\ StrongMetrics # {} /\ WeakMetrics # {}
    /\ \E m \in DOMAIN result.metrics : result.metrics[m].score = Rat(5, 10)
    /\ \E m \in DOMAIN result.metrics :
           RLt(Rat(5, 10), result.metrics[m].score) /\ RLt(result.metrics[m].score, Rat(8, 10))

(***************************************************************************)
(* The wait command of the command line (bug_fix_cursor_evaluator/cli.py): *)
(* it calls CursorAgentEvaluator.wait_for_results, which calls             *)
(* FileWatcher.wait_for_results with the timeout of the command line and   *)
(* the default check interval, while the agent writes the results file.    *)
(***************************************************************************)
\* CursorAgentEvaluator.wait_for_results: it returns what the watcher
\* returned and raises what the watcher raised
agent_wait_for_results(w) == [raised |-> w.raised, value |-> PyBool(w.returned)]

\* cli.wait_for_results from the return of the evaluator's call, without
\* --report: results.get("overall") raises AttributeError unless results
\* is a dictionary
cli_after_wait(call) ==
    IF call.raised = "TimeoutError" THEN [pc |-> "exit_1_timeout", results |-> PyBool(FALSE)]
    ELSE IF call.raised # "" THEN [pc |-> "exit_1_error", results |-> PyBool(FALSE)]
    ELSE IF call.value.type # "dict" THEN [pc |-> "exit_1_error", results |-> call.value]
    ELSE [pc |-> "completed", results |-> call.value]

CliWaitForResults ==
    /\ cli.pc = "idle"
    /\ \E timeout \in Timeouts :
           watcher' = [pc |-> "loop", start_time |-> now, timeout |-> timeout,
                       found |-> PyBool(FALSE), returned |-> FALSE, raised |-> ""]
    /\ cli' = [cli EXCEPT !.pc = "waiting"]
    /\ UNCHANGED <<calls, pc, metrics, engineer_analysis, ai_analysis, result, collected, config_vars,
                   now, results_file>>

AgentWritesResults ==
    /\ cli.pc \in {"idle", "waiting"}
    /\ results_file' \in ResultsFiles \ {results_file}
    /\ UNCHANGED <<calls, pc, metrics, engineer_analysis, ai_analysis, result, collected, config_vars,
                   now, watcher, cli>>

Poll ==
    /\ watcher.pc = "loop"
    /\ now - watcher.start_time < watcher.timeout
    /\ LET polled == poll(results_file)
       IN  watcher' = [watcher EXCEPT
                !.pc = CASE polled.then = "return" -> "returned"
                         [] polled.then = "raise" -> "raised"
                         [] polled.then = "sleep" -> "sleep",
                !.returned = (polled.then = "return"),
                !.raised = polled.raised,
                !.found = IF results_file.kind = "json" /\ validator(results_file.data)
                          THEN results_file.data ELSE @]
    /\ UNCHANGED <<calls, pc, metrics, engineer_analysis, ai_analysis, result, collected, config_vars,
                   now, results_file, cli>>

Sleep ==
    /\ watcher.pc = "sleep"
    /\ now' = now + check_interval
    /\ watcher' = [watcher EXCEPT !.pc = "loop"]
    /\ UNCHANGED <<calls, pc, metrics, engineer_analysis, ai_analysis, result, collected, config_vars,
                   results_file, cli>>

TimeOut ==
    /\ watcher.pc = "loop"
    /\ ~(now - watcher.start_time < watcher.timeout)
    /\ watcher' = [watcher EXCEPT !.pc = "returned", !.returned = FALSE]
    /\ UNCHANGED <<calls, pc, metrics, engineer_analysis, ai_analysis, result, collected, config_vars,
                   now, results_file, cli>>

CliReturns ==
    /\ cli.pc = "waiting"
    /\ watcher.pc \in {"returned", "raised"}
    /\ cli' = cli_after_wait(agent_wait_for_results(watcher))
    /\ UNCHANGED <<calls, pc, metrics, engineer_analysis, ai_analysis, result, collected, config_vars,
                   now, results_file, watcher>>

NextWait ==
    \/ CliWaitForResults \/ AgentWritesResults
    \/ Poll \/ Sleep \/ TimeOut
    \/ CliReturns

SpecWait == InitDefault /\ [][NextWait]_vars

\* C24: when a valid results file appears before the timeout the wait
\* command completes with the results loaded from it, and when the timeout
\* elapses without one it takes its TimeoutError branch
WaitCommandCompletesOrTimesOut ==
    cli.pc \notin {"idle", "waiting"} =>
        /\ watcher.found.type = "dict" =>
               cli.pc = "completed" /\ cli.results = watcher.found
        /\ watcher.found.type # "dict" /\ watcher.pc = "returned" =>
               cli.pc = "exit_1_timeout"

\* C25: FileWatcher.wait_for_results always returns; it returns True only
\* if a poll before the timeout found the file existing, parsed and valid,
\* and False once the timeout has elapsed without such a poll; a file that
\* is not parsable or not valid never ends the wait early
WatcherReturnsByValidPollOrTimeout ==
    /\ watcher.pc # "raised"
    /\ watcher.pc = "returned" /\ watcher.returned => watcher.found.type = "dict"
    /\ watcher.pc = "returned" /\ ~watcher.returned =>
           /\ watcher.found.type # "dict"
           /\ now - watcher.start_time >= watcher.timeout

\* the records of an analysed file before the post-processing pass
raw_records(file) == parse_diff(unified_diff(before_text(file), after_text(file)), 0, 0)

\* the places of the raw records where a removed record is immediately
\* followed by an added one
PairStarts(raw) ==
    {j \in 1..(Len(raw) - 1) : raw[j].type = "removed" /\ raw[j + 1].type = "added"}

\* the raw records with every such pair made one modified record and every
\* other record left as it is, in the order of the raw records
Paired(raw) ==
    LET starts == PairStarts(raw)
        kept == {i \in 1..Len(raw) : (i - 1) \notin starts}
        nth(k) == CHOOSE i \in kept : Cardinality({x \in kept : x < i}) = k - 1
    IN  [k \in 1..Cardinality(kept) |->
            IF nth(k) \in starts
            THEN [type |-> "modified",
                  line_numbers |-> [bug |-> raw[nth(k)].line_numbers.bug,
                                    fixed |-> raw[nth(k) + 1].line_numbers.fixed],
                  content |-> [bug |-> raw[nth(k)].content.bug,
                               fixed |-> raw[nth(k) + 1].content.fixed]]
            ELSE raw[nth(k)]]

diffed_files ==
    {pair \in analysed_files : before_text(pair[1]) # <<>> /\ after_text(pair[1]) # <<>>}

\* C26: after the post-processing pass no removed record is immediately
\* followed by an added one, every modified record is one removed record
\* with the added record that immediately followed it (the before line and
\* text of the one, the after line and text of the other), and every other
\* record is kept as it was and where it was
ModifiedRecordsAreAdjacentPairs ==
    Analysed =>
        \A pair \in diffed_files :
            /\ PairStarts(pair[2].changes) = {}
            /\ pair[2].changes = Paired(raw_records(pair[1]))
            /\ \A k \in 1..Len(raw_records(pair[1])) :
                   raw_records(pair[1])[k].type \in {"removed", "added"}

ModifiedRecordsAreAdjacentPairsWitness ==
    /\ Analysed
    /\ \E pair \in diffed_files :
        /\ Len(raw_records(pair[1])) = 4
        /\ Cardinality(PairStarts(raw_records(pair[1]))) = 1
        /\ [k \in 1..3 |-> pair[2].changes[k].type] = <<"removed", "modified", "added">>

\* C27: each of the tags concurrency, async_handling, error_handling and
\* resource_handling that a file's patterns hold raises the file's
\* complexity score by exactly 1 and adds exactly one factor, however many
\* changed lines gave the tag
ComplexPatternCountsOncePerTag ==
    Analysed =>
        \A pair \in analysed_files :
            /\ \A tag \in complex_patterns \cap Range(pair[2].patterns) :
                   Occurrences(pair[2].complexity.factors, "complex_pattern_" \o tag) = 1
            /\ pair[2].changes # <<>> =>
                   pair[2].complexity.score =
                       _assess_complexity(pair[2].path, pair[2].changes, <<>>).score
                       + Cardinality(complex_patterns \cap Range(pair[2].patterns))

\* C28: a file of the java, cpp or rust family gets 1 more complexity with
\* the factor complex_language, a file of any other family gets no
\* adjustment for its language
VerboseLanguagesAreComplex ==
    Analysed =>
        \A pair \in diffed_files :
            LET verbose == pair[2].file_type \in {"java", "cpp", "rust"}
            IN  /\ Occurrences(pair[2].complexity.factors, "complex_language")
                       = IF verbose THEN 1 ELSE 0
                /\ pair[2].complexity.score =
                       Len(pair[2].complexity.factors)
                       + Occurrences(pair[2].complexity.factors, "moderate_changes")
                       + 2 * Occurrences(pair[2].complexity.factors, "many_changes")
                       + Occurrences(pair[2].complexity.factors, "multi_file")

\* the collected files that have both a before and an after entry, in the
\* order of the diffed paths
with_both_entries == SelectSeq(collected, LAMBDA file : file.bug # <<>> /\ file.fixed # <<>>)

RECURSIVE summed_scores(_)
summed_scores(file_analyses) ==
    IF file_analyses = <<>> THEN 0
    ELSE Head(file_analyses).complexity.score + summed_scores(Tail(file_analyses))

duplicate_free(list) == Cardinality(Range(list)) = Len(list)

\* C29: after analyze_bug_fix, changed_files holds exactly one FileAnalysis
\* for each diffed path that has both a before and an after entry, in the
\* order of the diffed paths, and none for a path lacking either;
\* bug_patterns holds the patterns of those files and no others,
\* complexity.score is the sum of their complexity scores, and
\* complexity.factors holds their factors, each once
AnalysisAggregatesItsFiles ==
    Analysed =>
        LET analysis == analysis_at_hand
            files == analysis.changed_files
        IN  /\ Len(files) = Len(with_both_entries)
            /\ \A k \in 1..Len(files) :
                   files[k] = _analyze_file_changes(with_both_entries[k].path,
                                                    before_text(with_both_entries[k]),
                                                    after_text(with_both_entries[k]), <<>>)
            /\ Range(analysis.bug_patterns) = UNION {Range(files[k].patterns) : k \in 1..Len(files)}
            /\ analysis.complexity.score = summed_scores(files)
            /\ Range(analysis.complexity.factors)
                   = UNION {Range(files[k].complexity.factors) : k \in 1..Len(files)}
            /\ duplicate_free(analysis.complexity.factors)

\* an analysis of four diffed paths of which the first and the third are
\* skipped, whose two analysed files share a factor
AnalysisAggregatesItsFilesWitness ==
    /\ Analysed
    /\ Len(collected) = 4
    /\ Len(analysis_at_hand.changed_files) = 2
    /\ collected[1].bug = <<>>
    /\ collected[3].fixed = <<>>
    /\ analysis_at_hand.changed_files[1].path = collected[2].path
    /\ analysis_at_hand.changed_files[2].path = collected[4].path
    /\ Range(analysis_at_hand.changed_files[1].complexity.factors)
           \cap Range(analysis_at_hand.changed_files[2].complexity.factors) # {}
    /\ analysis_at_hand.complexity.score
           = analysis_at_hand.changed_files[1].complexity.score
             + analysis_at_hand.changed_files[2].complexity.score

(***************************************************************************)
(* Repeated evaluation.  One EvaluationMetrics instance and the two        *)
(* analyses its caller holds are used for several evaluate calls, with     *)
(* the two analyses in either position.  calls lists the calls made: the   *)
(* two analyses passed, as they were when passed, and the result returned. *)
(***************************************************************************)
MaxCalls == 3

\* a call that divides the weights of the instance by their sum as it
\* normalises the score
evaluate_call_normalising_in_place(self_metrics, engineer, ai) ==
    LET total_weight == total_weight_of(MetricNames, self_metrics)
    IN  [returned |-> evaluate(self_metrics, engineer, ai),
         self_metrics |-> IF RLt(Zero, total_weight)
                          THEN [m \in DOMAIN self_metrics |->
                                   [self_metrics[m] EXCEPT !.weight = RDiv(@, total_weight)]]
                          ELSE self_metrics,
         engineer_analysis |-> engineer,
         ai_analysis |-> ai]

\* a call of evaluate: the result returned and, as they are after the call,
\* the objects it can reach: the instance's metric table and the two
\* arguments.  evaluate and the functions it calls assign to no entry of
\* self.metrics and write into neither argument; what they build
\* (result, details, comparison) is new
evaluate_call(self_metrics, engineer, ai) ==
    [returned |-> evaluate(self_metrics, engineer, ai),
     self_metrics |-> self_metrics,
     engineer_analysis |-> engineer,
     ai_analysis |-> ai]

RepeatAnalyses == {analyze_request(r) : r \in GivenRequests}

Held == {"engineer_analysis", "ai_analysis"}

held(name) == IF name = "engineer_analysis" THEN engineer_analysis ELSE ai_analysis

HoldAnalyses ==
    /\ pc = "constructed"
    /\ engineer_analysis' \in RepeatAnalyses
    /\ ai_analysis' \in RepeatAnalyses
    /\ pc' = "ai_analyzed"
    /\ UNCHANGED <<calls, metrics, result, collected, config_vars, wait_vars>>

EvaluateCall ==
    /\ pc \in {"ai_analyzed", "evaluated"}
    /\ Len(calls) < MaxCalls
    /\ \E engineer \in Held, ai \in Held :
           LET call == evaluate_call(metrics, held(engineer), held(ai))
               after(name) == IF engineer = name THEN call.engineer_analysis
                              ELSE IF ai = name THEN call.ai_analysis
                              ELSE held(name)
           IN  /\ result' = call.returned
               /\ calls' = Append(calls, [engineer_analysis |-> held(engineer),
                                          ai_analysis |-> held(ai),
                                          returned |-> call.returned])
               /\ metrics' = call.self_metrics
               /\ engineer_analysis' = after("engineer_analysis")
               /\ ai_analysis' = after("ai_analysis")
    /\ pc' = "evaluated"
    /\ UNCHANGED <<collected, config_vars, wait_vars>>

NextRepeat == HoldAnalyses \/ EvaluateCall

SpecRepeat == Init /\ [][NextRepeat]_vars

====
